---------------------------- MODULE Spec2Model ----------------------------
(***************************************************************************)
(* A model of the webcloner backend core:                                  *)
(*   - the CSS relevance filter  (backend/app/filter_css.py)               *)
(*   - the section detector      (backend/section_processor.py)            *)
(*   - the URL, link and form normalizer, the per-section processing and   *)
(*     the assembler             (backend/section_processor.py)            *)
(*                                                                         *)
(* Text is modelled by TLA+ strings; TLC evaluates Len, \o, SubSeq, Head   *)
(* and Tail on them.  Positions are 1-based: the model's position p is     *)
(* Python's index p-1, and Python's "not found" (-1) is 0 here.            *)
(*                                                                         *)
(* A parsed document (BeautifulSoup(html, 'html.parser')) is the sequence  *)
(* of its tags in document order; each tag carries its name, its class     *)
(* tokens, its id and role attributes ("" when absent), the index of its   *)
(* parent tag (0 at top level) and its own text.  The empty sequence is    *)
(* the parse of the empty string.  Attributes other than class, id and    *)
(* role are kept as a sequence of <<name, value>> pairs in source order.   *)
(*                                                                         *)
(* Where the code parses a string it built or received (a section's html,  *)
(* the model's answer, the assembled document), the parse is the sequence  *)
(* of the string's tokens: text, tags with their attributes, end tags,     *)
(* comments and declarations; str(soup) writes the tokens out again.       *)
(***************************************************************************)
EXTENDS Integers, Sequences, FiniteSets, TLC

VARIABLES
    pc,             \* position of the running operation
    html,           \* html_content / full_html, parsed; inline_css: html, as text
    css,            \* css_content / full_css
    css_rules,      \* filter: the selector texts found by the rule pattern
    idx,            \* filter: index of the rule the loop is at
    filtered_rules, \* filter: the rule texts kept so far
    result,         \* filter: the returned string
    sections,       \* detector: the WebsiteSection list built so far
    original_images,\* detector: self.original_images, the image URLs found
    original_url,   \* the URL of the cloned page, <<>> when none is passed
    sorted_sections,\* process_all_sections: the sections still to process
    responses,      \* the model's answers so far, one per processed section
    results,        \* process_all_sections: the records built so far
    combined,       \* combine_sections / conservative pass: the document
    norm_pass,      \* normalizer: the pass that is applied
    norm_text,      \* normalizer: the input followed by each pass's output
    in_flight,      \* the sections whose model call is issued and not yet back
    events,         \* the delays, calls and appends of process_all_sections
    blocks,         \* the pair extract_code_blocks returns, <<>> before
    browser,        \* scraper: "none", "open" or "closed"
    close_calls,    \* scraper: the number of calls of browser.close()
    page_content,   \* scraper: the html of page.content(), "" before
    page_info,      \* scraper: the title and the images found in the page
    css_contents,   \* scraper: the CSS gathered so far
    stylesheets,    \* scraper: the stylesheet links the loop has still to visit
    css_files_processed, \* scraper: the loop's counter of links
    fetches,        \* scraper: the stylesheet fetches made, with their status
    context,        \* scraper: the ScrapedContext returned, <<>> when none
    failure,        \* scraper: the exception raised, "" when none
    mode,           \* clone operation: "generate" or "conservative", "" when none
    files,          \* the files written below generated/, by name
    model_calls,    \* /generate: the number of calls of messages.create
    raw_output,     \* /generate: the text of the model's answer
    reply,          \* what the caller of the operation gets, <<>> before
    ops             \* two concurrent operations: the local state of each

vars == <<pc, html, css, css_rules, idx, filtered_rules, result, sections,
          original_images, original_url, sorted_sections, responses, results, combined,
          norm_pass, norm_text, in_flight, events, blocks, browser, close_calls,
          page_content, page_info, css_contents, stylesheets, css_files_processed,
          fetches, context, failure, mode, files, model_calls, raw_output, reply, ops>>

\* the variables of the CSS filter's loop
filterVars == <<css_rules, idx, filtered_rules, result>>
\* the variables of the per-section processing and of the assembler
processVars == <<original_url, sorted_sections, responses, results, combined>>
\* the variables of the normalizer
normVars == <<norm_pass, norm_text>>
\* the variables of the model calls of process_all_sections
callVars == <<in_flight, events>>
\* the variables of a clone operation from the scrape to the answer
scrapeVars == <<browser, close_calls, page_content, page_info, css_contents, stylesheets,
                css_files_processed, fetches, context, failure>>
\* the variables of the operation around the scrape
endpointVars == <<mode, files, model_calls, raw_output, reply, ops>>
cloneVars == <<blocks, scrapeVars, endpointVars>>
lateVars == <<callVars, cloneVars>>

\* the values of these variables while no such operation runs
CallIdle ==
    /\ in_flight = {}
    /\ events = <<>>
ScrapeIdle ==
    /\ browser = "none"
    /\ close_calls = 0
    /\ page_content = ""
    /\ page_info = <<>>
    /\ css_contents = ""
    /\ stylesheets = <<>>
    /\ css_files_processed = 0
    /\ fetches = <<>>
    /\ context = <<>>
    /\ failure = ""
EndpointIdle ==
    /\ mode = ""
    /\ files = << >>
    /\ model_calls = 0
    /\ raw_output = ""
    /\ reply = <<>>
    /\ ops = <<>>
CloneIdle ==
    /\ blocks = <<>>
    /\ ScrapeIdle
    /\ EndpointIdle
LateIdle == CallIdle /\ CloneIdle

---------------------------------------------------------------------------
(* Bounds of the model *)

\* number of stylesheet pieces concatenated into one css_content
MaxPieces == 2
\* length of the long declaration block used to reach the size cap
BigBody == 100000

---------------------------------------------------------------------------
(* Characters and Python's string methods *)

At(s, i) == SubSeq(s, i, i)

Lower == {"a","b","c","d","e","f","g","h","i","j","k","l","m",
          "n","o","p","q","r","s","t","u","v","w","x","y","z"}
Upper == {"A","B","C","D","E","F","G","H","I","J","K","L","M",
          "N","O","P","Q","R","S","T","U","V","W","X","Y","Z"}
Digit == {"0","1","2","3","4","5","6","7","8","9"}

\* the regular expression classes \w and \s, on ASCII text
WordChar == Lower \cup Upper \cup Digit \cup {"_"}
SpaceChar == {" ", "\t", "\n", "\r", "\f"}

MinOf(S) == CHOOSE x \in S : \A y \in S : x <= y

\* str.startswith
StartsWith(s, p) == Len(s) >= Len(p) /\ SubSeq(s, 1, Len(p)) = p

\* the `in` operator on strings: sub in s
Contains(sub, s) ==
    \E i \in 1..(Len(s) - Len(sub) + 1) : SubSeq(s, i, i + Len(sub) - 1) = sub

\* str.find: the first position of sub in s, 0 when there is none
Find(s, sub) ==
    LET hits == {i \in 1..(Len(s) - Len(sub) + 1) :
                    SubSeq(s, i, i + Len(sub) - 1) = sub}
    IN  IF hits = {} THEN 0 ELSE MinOf(hits)

RECURSIVE LStrip(_)
LStrip(s) ==
    IF s # "" /\ Head(s) \in SpaceChar THEN LStrip(Tail(s)) ELSE s

RECURSIVE RStrip(_)
RStrip(s) ==
    IF s # "" /\ At(s, Len(s)) \in SpaceChar
    THEN RStrip(SubSeq(s, 1, Len(s) - 1))
    ELSE s

\* str.strip
Strip(s) == LStrip(RStrip(s))

\* str.split(','): the pieces between the commas, empty pieces included
RECURSIVE SplitComma(_)
SplitComma(s) ==
    LET commas == {i \in 1..Len(s) : At(s, i) = ","}
    IN  IF commas = {} THEN <<s>>
        ELSE LET c == MinOf(commas)
             IN  <<SubSeq(s, 1, c - 1)>> \o SplitComma(SubSeq(s, c + 1, Len(s)))

\* sep.join(parts)
RECURSIVE Join(_, _)
Join(sep, parts) ==
    IF parts = <<>> THEN ""
    ELSE IF Len(parts) = 1 THEN parts[1]
    ELSE parts[1] \o sep \o Join(sep, Tail(parts))

\* s repeated n times
RECURSIVE Rep(_, _)
Rep(s, n) ==
    IF n = 0 THEN ""
    ELSE IF n % 2 = 0 THEN LET h == Rep(s, n \div 2) IN h \o h
    ELSE s \o Rep(s, n - 1)

---------------------------------------------------------------------------
(* Parsed documents *)

Tag(name, classes, id, role, parent, text) ==
    [tag |-> name, class |-> classes, id |-> id, role |-> role,
     parent |-> parent, text |-> text, attrs |-> <<>>]

\* a tag that carries other attributes: src, srcset, href, action
TagWith(name, attrs, parent, text) ==
    [tag |-> name, class |-> <<>>, id |-> "", role |-> "",
     parent |-> parent, text |-> text, attrs |-> attrs]

\* the elements html.parser's tree writes without an end tag
VoidTags == {"img", "source", "meta", "br", "hr", "input", "link"}

\* soup.find_all(): every tag of the document
TagNames(doc) == {doc[i].tag : i \in 1..Len(doc)}
\* soup.find_all(class_=True): the class tokens
ClassTokens(doc) ==
    UNION {{doc[i].class[j] : j \in 1..Len(doc[i].class)} : i \in 1..Len(doc)}
\* soup.find_all(id=True): the id values
IdValues(doc) == {doc[i].id : i \in 1..Len(doc)} \ {""}

---------------------------------------------------------------------------
(* filter_css.py: filter_css_from_html_and_css *)

\* the size cap of the returned stylesheet
SizeLimit == 100000

priority_selectors ==
    {"body", "html", "*", "head", "meta", "title", "div", "span", "p",
     "h1", "h2", "h3", "h4", "h5", "h6", "a", "img", "ul", "ol", "li",
     "nav", "header", "footer", "main", "section", "article", "aside",
     "button", "input", "form", "label", "table", "tr", "td", "th"}

layout_patterns ==
    {"container", "wrapper", "header", "footer", "nav", "menu",
     "button", "btn", "card", "grid", "flex", "row", "col", "sidebar",
     "content", "main", "hero", "banner", "section", "block", "page",
     "site", "web", "theme", "style", "layout", "design"}

Braces(s, from) == {i \in from..Len(s) : At(s, i) \in {"{", "}"}}

(* re.findall(r'([^{}]+)\s*\{[^}]*\}', css_content), with the place of each
   match.  A match starts at the first character that is no brace and is
   followed, before any other brace, by "{"; group 1 takes every character
   up to that "{" (the greedy group leaves nothing to the optional
   white space after it), and the match
   ends at the first "}" after it.  The search resumes after the match. *)
RECURSIVE RuleMatches(_, _)
RuleMatches(s, pos) ==
    LET braces == Braces(s, pos)
    IN  IF braces = {} THEN <<>>
        ELSE LET b == MinOf(braces)
             IN  IF b = pos THEN RuleMatches(s, pos + 1)
                 ELSE IF At(s, b) = "}" THEN RuleMatches(s, b + 1)
                 ELSE LET closes == {i \in braces : i > b /\ At(s, i) = "}"}
                      IN  IF closes = {} THEN <<>>
                          ELSE LET e == MinOf(closes)
                               IN  <<[start |-> pos, open |-> b, close |-> e,
                                      sel |-> SubSeq(s, pos, b - 1)]>>
                                   \o RuleMatches(s, e + 1)

\* css_rules: the group-1 texts, in order
FindRules(s) ==
    LET ms == RuleMatches(s, 1) IN [k \in 1..Len(ms) |-> ms[k].sel]

\* re.sub(r'[^\w\s\-\.#\[\]=]', '', selector)
RECURSIVE CleanChars(_)
CleanChars(s) ==
    IF s = "" THEN ""
    ELSE (IF Head(s) \in WordChar \cup SpaceChar \cup {"-", ".", "#", "[", "]", "="}
          THEN Head(s) ELSE "") \o CleanChars(Tail(s))

clean_selector(selector) == Strip(CleanChars(selector))

\* html_selectors = elements.union(classes).union(ids)
html_selectors(doc) == TagNames(doc) \cup ClassTokens(doc) \cup IdValues(doc)

\* the body of the loop over rule_selectors, up to its break
SelectorKept(selector, hs) ==
    LET c == clean_selector(selector)
    IN  \/ c \in hs
        \/ c \in priority_selectors
        \/ StartsWith(c, "@media") \/ StartsWith(c, "@keyframes") \/ Contains(":", c)
        \/ \E pattern \in layout_patterns : Contains(pattern, c)
        \/ Len(c) > 2 /\ ~StartsWith(c, "_")

\* should_keep for one rule
ShouldKeep(rule, hs) ==
    LET rule_selectors == SplitComma(rule)
    IN  \E i \in 1..Len(rule_selectors) : SelectorKept(Strip(rule_selectors[i]), hs)

(* the brace counter: the position of the first "}" at or after position i
   that brings brace_count to zero, 0 when there is none *)
RECURSIVE ScanBraces(_, _, _)
ScanBraces(s, i, brace_count) ==
    LET braces == Braces(s, i)
    IN  IF braces = {} THEN 0
        ELSE LET b == MinOf(braces)
             IN  IF At(s, b) = "{" THEN ScanBraces(s, b + 1, brace_count + 1)
                 ELSE IF brace_count - 1 = 0 THEN b
                 ELSE ScanBraces(s, b + 1, brace_count - 1)

\* rule_start = css_content.find(rule)
RuleStart(s, rule) == Find(s, rule)

\* the rules appended to filtered_rules for one kept rule: one or none
CompleteRule(s, rule) ==
    LET rule_start == RuleStart(s, rule)
        rule_end == IF rule_start = 0 THEN 0 ELSE ScanBraces(s, rule_start, 0)
    IN  IF rule_start # 0 /\ rule_end # 0
        THEN <<SubSeq(s, rule_start, rule_end)>>
        ELSE <<>>

\* a cap that keeps one character too many
TruncateOffByOne(s) == IF Len(s) > SizeLimit THEN SubSeq(s, 1, SizeLimit + 1) ELSE s

\* filtered_css[:100000] when len(filtered_css) > 100000
Truncate(s) == IF Len(s) > SizeLimit THEN SubSeq(s, 1, SizeLimit) ELSE s

---------------------------------------------------------------------------
(* Inputs of the filter *)

\* the parse of the empty string
DocEmpty == <<>>
\* <div class="a"><p>x</p></div>
DocA == <<Tag("div", <<"a">>, "", "", 0, ""), Tag("p", <<>>, "", "", 1, "x")>>
\* <html><body><div class="b" id="i">x</div></body></html>
DocBody == <<Tag("html", <<>>, "", "", 0, ""), Tag("body", <<>>, "", "", 1, ""),
             Tag("div", <<"b">>, "i", "", 2, "x")>>

FilterDocs == {DocEmpty, DocA, DocBody}

CssPieces ==
    {".a{color:red}", " .b{color:blue}", "#i{top:0}", "body{margin:0}",
     ".x{font:body}", "abc{x:1}", "abc{y:2}", "p,.a{x:1}",
     "a:hover{x:1}", "_a:hover{x:1}", "@media print{.b{color:blue}}",
     "abc{x"}

\* stylesheets long enough for the joined rules to pass the size cap
BigCss ==
    {"abc{" \o Rep("x", BigBody) \o "}",
     "abc{" \o Rep("x", BigBody \div 2) \o "}abd{" \o Rep("y", BigBody \div 2) \o "}"}

CssInputs ==
    {Join("", ps) : ps \in UNION {[1..n -> CssPieces] : n \in 0..MaxPieces}}
    \cup BigCss

---------------------------------------------------------------------------
(* filter_css_from_html_and_css as a process *)

InitFilter ==
    /\ pc = "filter"
    /\ html \in FilterDocs
    /\ css \in CssInputs
    /\ css_rules = <<>>
    /\ idx = 0
    /\ filtered_rules = <<>>
    /\ result = ""
    /\ sections = <<>>
    /\ original_images = <<>>
    /\ original_url = <<>>
    /\ sorted_sections = <<>>
    /\ responses = <<>>
    /\ results = <<>>
    /\ combined = ""
    /\ norm_pass = ""
    /\ norm_text = <<>>
    /\ LateIdle

\* if not css_content: return ""
FilterEmpty ==
    /\ pc = "filter"
    /\ css = ""
    /\ result' = ""
    /\ pc' = "filtered"
    /\ UNCHANGED <<html, css, css_rules, idx, filtered_rules, sections>>
    /\ UNCHANGED <<original_images, processVars, normVars, lateVars>>

\* css_rules = re.findall(...); the documents's identifiers are read from html
FilterExtract ==
    /\ pc = "filter"
    /\ css # ""
    /\ css_rules' = FindRules(css)
    /\ idx' = 1
    /\ filtered_rules' = <<>>
    /\ pc' = "rules"
    /\ UNCHANGED <<html, css, result, sections>>
    /\ UNCHANGED <<original_images, processVars, normVars, lateVars>>

\* one turn of `for rule in css_rules`
FilterRule ==
    /\ pc = "rules"
    /\ idx <= Len(css_rules)
    /\ filtered_rules' =
          IF ShouldKeep(css_rules[idx], html_selectors(html))
          THEN filtered_rules \o CompleteRule(css, css_rules[idx])
          ELSE filtered_rules
    /\ idx' = idx + 1
    /\ UNCHANGED <<pc, html, css, css_rules, result, sections>>
    /\ UNCHANGED <<original_images, processVars, normVars, lateVars>>

\* filtered_css = '\n'.join(filtered_rules), capped, returned
FilterJoin ==
    /\ pc = "rules"
    /\ idx > Len(css_rules)
    /\ result' = Truncate(Join("\n", filtered_rules))
    /\ pc' = "filtered"
    /\ UNCHANGED <<html, css, css_rules, idx, filtered_rules, sections>>
    /\ UNCHANGED <<original_images, processVars, normVars, lateVars>>

NextFilter == FilterEmpty \/ FilterExtract \/ FilterRule \/ FilterJoin

SpecFilter == InitFilter /\ [][NextFilter]_vars

---------------------------------------------------------------------------
(* Properties of the filter *)

\* the rules of the stylesheet in the filter's run, with their places
Rules == RuleMatches(css, 1)

\* a rule's own complete text: from the start of its selector list through
\* the "}" matching its own "{"; "" when that brace is never closed
OwnText(m) ==
    LET e == ScanBraces(css, m.open, 0)
    IN  IF e = 0 THEN "" ELSE Strip(SubSeq(css, m.start, e))

\* the rules the rule pattern finds at top level or inside a block
AllRules ==
    LET starts == {1} \cup {b + 1 : b \in {i \in Braces(css, 1) : At(css, i) = "{"}}
    IN  UNION {{RuleMatches(css, p)[k] : k \in 1..Len(RuleMatches(css, p))} : p \in starts}

Relevant(m) == ShouldKeep(m.sel, html_selectors(html))

\* the own texts of the relevant rules among ms, in stylesheet order
RECURSIVE RelevantOwnTexts(_)
RelevantOwnTexts(ms) ==
    IF ms = <<>> THEN <<>>
    ELSE (IF Relevant(Head(ms)) /\ OwnText(Head(ms)) # ""
          THEN <<OwnText(Head(ms))>> ELSE <<>>) \o RelevantOwnTexts(Tail(ms))

RECURSIVE StripAll(_)
StripAll(ts) == IF ts = <<>> THEN <<>> ELSE <<Strip(Head(ts))>> \o StripAll(Tail(ts))

(* C1: the filter retains every rule whose selector is .c for a class token c
   of the HTML, or #i for an id i of the HTML, one-character names included;
   for <div class="a"><p>x</p></div> and .a{color:red} .b{color:blue} the
   output holds the .a rule and not the .b rule. *)
C1_ClassAndIdRulesRetained ==
    pc = "filtered" =>
        /\ \A k \in 1..Len(Rules) :
              LET sel == Strip(Rules[k].sel)
              IN  (\/ StartsWith(sel, ".") /\ Tail(sel) \in ClassTokens(html)
                   \/ StartsWith(sel, "#") /\ Tail(sel) \in IdValues(html))
                  => Contains(OwnText(Rules[k]), result)
        /\ (html = DocA /\ css = ".a{color:red} .b{color:blue}")
              => (Contains(".a{color:red}", result) /\ ~Contains(".b{color:blue}", result))

(* C2: for every HTML input, every rule one of whose selectors is an at-rule
   (@media, @keyframes) or contains ":" appears in the output. *)
C2_AtRulesAndPseudoRetained ==
    pc = "filtered" =>
        \A k \in 1..Len(Rules) :
            LET parts == SplitComma(Rules[k].sel)
            IN  (\E i \in 1..Len(parts) :
                    LET sel == Strip(parts[i])
                    IN  \/ StartsWith(sel, "@media")
                        \/ StartsWith(sel, "@keyframes")
                        \/ Contains(":", sel))
                => Contains(OwnText(Rules[k]), result)

(* C3: a rule whose selector is a priority-listed tag that the HTML contains
   is in the output, selector and declaration block, wherever it stands in
   the stylesheet. *)
C3_PriorityTagRetained ==
    pc = "filtered" =>
        \A k \in 1..Len(Rules) :
            LET sel == Strip(Rules[k].sel)
            IN  (sel \in priority_selectors /\ sel \in TagNames(html))
                => (OwnText(Rules[k]) # "" /\ Contains(OwnText(Rules[k]), result))

(* C4: a rule none of whose comma-separated selectors satisfies a relevance
   rule never appears in the output, nested rules included. *)
C4_OnlyRelevantRulesInOutput ==
    pc = "filtered" =>
        \A m \in AllRules :
            (~Relevant(m) /\ OwnText(m) # "") => ~Contains(OwnText(m), result)

(* C5: the texts emitted are, in order, the own complete texts of the rules
   judged relevant: each from the start of its selector list through the
   brace matching its opening brace. *)
C5_EmitsOwnCompleteText ==
    pc = "filtered" /\ css # "" =>
        StripAll(filtered_rules) = RelevantOwnTexts(Rules)

(* C6: the filter returns the empty string whenever the CSS input is empty
   or the HTML input is empty. *)
C6_EmptyInputEmptyOutput ==
    pc = "filtered" /\ (css = "" \/ html = DocEmpty) => result = ""

(* C7: the returned string is at most 100000 characters long; when the
   joined retained rules are longer, the result is exactly their first
   100000 characters. *)
C7_SizeCap ==
    pc = "filtered" =>
        LET joined == Join("\n", filtered_rules)
        IN  /\ Len(result) <= SizeLimit
            /\ IF Len(joined) > SizeLimit
               THEN result = SubSeq(joined, 1, SizeLimit)
               ELSE result = joined

\* a run in which the joined rules passed the cap and were cut to it
C7_Witness ==
    /\ pc = "filtered"
    /\ Len(Join("\n", filtered_rules)) > SizeLimit
    /\ Len(result) = SizeLimit

---------------------------------------------------------------------------
(* section_processor.py: the section detector *)

\* number of elements of a generated page, the body apart
MaxElems == 2

UpperLetters == "ABCDEFGHIJKLMNOPQRSTUVWXYZ"
LowerLetters == "abcdefghijklmnopqrstuvwxyz"

\* str.lower
RECURSIVE ToLower(_)
ToLower(s) ==
    IF s = "" THEN ""
    ELSE LET k == Find(UpperLetters, Head(s))
         IN  (IF k = 0 THEN Head(s) ELSE At(LowerLetters, k)) \o ToLower(Tail(s))

\* name="value" for each attribute of a list, in order
RECURSIVE AttrText(_)
AttrText(attrs) ==
    IF attrs = <<>> THEN ""
    ELSE " " \o Head(attrs)[1] \o "=\"" \o Head(attrs)[2] \o "\"" \o AttrText(Tail(attrs))

\* the attributes of a tag as html.parser's tree writes them out
Attrs(t) ==
    (IF t.class # <<>> THEN " class=\"" \o Join(" ", t.class) \o "\"" ELSE "")
    \o (IF t.id # "" THEN " id=\"" \o t.id \o "\"" ELSE "")
    \o (IF t.role # "" THEN " role=\"" \o t.role \o "\"" ELSE "")
    \o AttrText(t.attrs)

\* str(element): the tag, its text and its children, in document order
RECURSIVE Str(_, _)
RECURSIVE StrChildren(_, _, _)
Str(doc, i) ==
    IF doc[i].tag \in VoidTags THEN "<" \o doc[i].tag \o Attrs(doc[i]) \o "/>"
    ELSE "<" \o doc[i].tag \o Attrs(doc[i]) \o ">" \o doc[i].text
         \o StrChildren(doc, i, i + 1) \o "</" \o doc[i].tag \o ">"
StrChildren(doc, i, j) ==
    IF j > Len(doc) THEN ""
    ELSE (IF doc[j].parent = i THEN Str(doc, j) ELSE "") \o StrChildren(doc, i, j + 1)

\* whether tag j lies inside tag b
RECURSIVE IsDescendant(_, _, _)
IsDescendant(doc, j, b) ==
    /\ doc[j].parent # 0
    /\ (doc[j].parent = b \/ IsDescendant(doc, doc[j].parent, b))

\* the selectors of the candidate lists
SelTag(name) == [kind |-> "tag", arg |-> name]
SelRole(role) == [kind |-> "role", arg |-> role]
SelClass(token) == [kind |-> "class", arg |-> token]
SelClassSub(part) == [kind |-> "class*", arg |-> part]

header_selectors ==
    <<SelTag("header"), SelRole("banner"), SelClass("header"), SelClass("site-header"),
      SelClass("main-header"), SelClass("navigation"), SelTag("nav"), SelClass("nav")>>

sidebar_selectors ==
    <<SelTag("aside"), SelRole("complementary"), SelClass("sidebar"), SelClass("side-nav"),
      SelClass("secondary"), SelClass("widget-area")>>

footer_selectors ==
    <<SelTag("footer"), SelRole("contentinfo"), SelClass("footer"), SelClass("site-footer"),
      SelClass("main-footer")>>

hero_selectors ==
    <<SelClass("hero"), SelClass("banner"), SelClass("jumbotron"), SelClass("hero-section"),
      SelClass("main-banner"), SelClassSub("hero"), SelClassSub("banner")>>

\* whether a tag matches a selector: tag name, [role="..."], .token, [class*="..."]
Matches(sel, t) ==
    CASE sel.kind = "tag" -> t.tag = sel.arg
      [] sel.kind = "role" -> t.role = sel.arg
      [] sel.kind = "class" -> \E c \in 1..Len(t.class) : t.class[c] = sel.arg
      [] sel.kind = "class*" -> t.class # <<>> /\ Contains(sel.arg, Join(" ", t.class))

\* soup.select_one(selector): the first matching tag in document order, 0 for None
select_one(doc, sel) ==
    LET hits == {i \in 1..Len(doc) : Matches(sel, doc[i])}
    IN  IF hits = {} THEN 0 ELSE MinOf(hits)

\* a loop that walks the document first and the selector list second
ExtractFirstInDocumentOrder(doc, selectors) ==
    LET hits == {i \in 1..Len(doc) :
                    \E k \in 1..Len(selectors) : Matches(selectors[k], doc[i])}
    IN  IF hits = {} THEN <<>> ELSE <<Str(doc, MinOf(hits))>>

(* for selector in selectors: element = soup.select_one(selector);
   if element: return str(element) -- and None, here <<>>, after the loop *)
RECURSIVE ExtractFirst(_, _)
ExtractFirst(doc, selectors) ==
    IF selectors = <<>> THEN <<>>
    ELSE LET element == select_one(doc, Head(selectors))
         IN  IF element # 0 THEN <<Str(doc, element)>>
             ELSE ExtractFirst(doc, Tail(selectors))

extract_header(doc) == ExtractFirst(doc, header_selectors)
extract_sidebar(doc) == ExtractFirst(doc, sidebar_selectors)
extract_footer(doc) == ExtractFirst(doc, footer_selectors)
extract_hero(doc) == ExtractFirst(doc, hero_selectors)

\* the least serialized length of a main-content candidate
MinContentLength == 500

content_tags == {"div", "section", "main", "article"}
skipped_words == {"header", "footer", "sidebar", "nav", "menu"}

\* soup.find('body'): the first body tag, 0 for None
FindBody(doc) ==
    LET hits == {i \in 1..Len(doc) : doc[i].tag = "body"}
    IN  IF hits = {} THEN 0 ELSE MinOf(hits)

\* a threshold that also turns away an element of exactly the least length
TooSmallInclusive(text) == Len(text) <= MinContentLength

\* len(str(element)) < 500
TooSmall(text) == Len(text) < MinContentLength

\* classes = ' '.join(element.get('class', [])).lower(), tested against the words
ClearlyNotContent(t) ==
    LET classes == ToLower(Join(" ", t.class))
    IN  \E x \in skipped_words : Contains(x, classes)

\* content_candidates, as indices into the document
content_candidates(doc, body) ==
    {j \in 1..Len(doc) :
        /\ IsDescendant(doc, j, body)
        /\ doc[j].tag \in content_tags
        /\ ~ClearlyNotContent(doc[j])
        /\ ~TooSmall(Str(doc, j))}

\* max(content_candidates, key=...): the first of the longest
Largest(doc, cands) ==
    MinOf({j \in cands : \A k \in cands : Len(Str(doc, k)) <= Len(Str(doc, j))})

extract_main_content_visual(doc) ==
    LET body == FindBody(doc)
    IN  IF body = 0 THEN <<>>
        ELSE LET cands == content_candidates(doc, body)
             IN  IF cands = {} THEN <<>>
                 ELSE <<Str(doc, Largest(doc, cands))>>

\* the stylesheet paired with a section: the whole stylesheet
extract_css_for_html(html_content, full_css) == full_css

WebsiteSection(name, h, c, description, priority) ==
    [name |-> name, html |-> h, css |-> c, description |-> description,
     priority |-> priority]

\* sections.append(WebsiteSection(...)) under `if found:`
WithSection(secs, found, name, c, description, priority) ==
    IF found # <<>>
    THEN Append(secs, WebsiteSection(name, found[1],
                                     extract_css_for_html(found[1], c),
                                     description, priority))
    ELSE secs

---------------------------------------------------------------------------
(* Inputs of the detector *)

Kind(name, classes, role, text) ==
    [tag |-> name, class |-> classes, role |-> role, text |-> text]

\* the elements pages are built from; the texts bring the serialized lengths
\* of the plain div to 499 and 500 characters
ElemKinds ==
    {Kind("header", <<>>, "", "h"),
     Kind("footer", <<>>, "", "f"),
     Kind("aside", <<>>, "", "s"),
     Kind("div", <<"header", "footer", "sidebar", "banner">>, "", "c"),
     Kind("div", <<"hero-image">>, "", "i"),
     Kind("div", <<>>, "", Rep("x", 488)),
     Kind("div", <<>>, "", Rep("x", 489)),
     Kind("section", <<>>, "", Rep("y", 600)),
     Kind("div", <<"NavBar">>, "", Rep("z", 700))}

\* a page: an optional body, then the elements, each a child of the element
\* before it (nest) or of the body
Page(withBody, ks, nest) ==
    LET root == IF withBody THEN 1 ELSE 0
    IN  (IF withBody THEN <<Tag("body", <<>>, "", "", 0, "")>> ELSE <<>>)
        \o [i \in 1..Len(ks) |->
               Tag(ks[i].tag, ks[i].class, "", ks[i].role,
                   IF nest[i] THEN root + i - 1 ELSE root, ks[i].text)]

DetectDocs ==
    {Page(withBody, ks, nest) :
        withBody \in BOOLEAN,
        <<ks, nest>> \in UNION {[1..n -> ElemKinds] \X {f \in [1..n -> BOOLEAN] : n >= 1 => ~f[1]}
                                : n \in 0..MaxElems}}

---------------------------------------------------------------------------
(* section_processor.py: strings parsed by BeautifulSoup(text, 'html.parser')
   and written out again by str(soup) *)

\* the first position of sub in s at or after from, 0 when there is none
FindFrom(s, sub, from) ==
    LET hits == {i \in from..(Len(s) - Len(sub) + 1) :
                    SubSeq(s, i, i + Len(sub) - 1) = sub}
    IN  IF hits = {} THEN 0 ELSE MinOf(hits)

\* the four kinds of token of a parsed string
TextTok(t) == [kind |-> "text", name |-> "", attrs |-> <<>>, text |-> t]
DeclTok(t) == [kind |-> "decl", name |-> "", attrs |-> <<>>, text |-> t]
StartTok(name, attrs) == [kind |-> "start", name |-> name, attrs |-> attrs, text |-> ""]
EndTok(name) == [kind |-> "end", name |-> name, attrs |-> <<>>, text |-> ""]

(* the attributes written inside a start tag: name="value" pairs, a name
   without a value reading as the empty string *)
RECURSIVE ParseAttrs(_)
ParseAttrs(rest) ==
    LET r == LStrip(rest)
        eq == Find(r, "=\"")
        sp == Find(r, " ")
    IN  IF r = "" \/ r = "/" THEN <<>>
        ELSE IF eq = 0 \/ (sp # 0 /\ sp < eq)
        THEN LET e == IF sp = 0 THEN Len(r) + 1 ELSE sp
                 n == SubSeq(r, 1, e - 1)
             IN  <<<<ToLower(IF n # "" /\ At(n, Len(n)) = "/"
                             THEN SubSeq(n, 1, Len(n) - 1) ELSE n), "">>>>
                 \o ParseAttrs(SubSeq(r, e, Len(r)))
        ELSE LET close == FindFrom(r, "\"", eq + 2)
                 c == IF close = 0 THEN Len(r) + 1 ELSE close
             IN  <<<<ToLower(SubSeq(r, 1, eq - 1)), SubSeq(r, eq + 2, c - 1)>>>>
                 \o ParseAttrs(SubSeq(r, c + 1, Len(r)))

\* the start tag written between "<" and ">"
ParseTag(inner) ==
    LET sp == Find(inner, " ")
        e == IF sp = 0 THEN Len(inner) + 1 ELSE sp
        n == SubSeq(inner, 1, e - 1)
    IN  StartTok(ToLower(IF n # "" /\ At(n, Len(n)) = "/"
                         THEN SubSeq(n, 1, Len(n) - 1) ELSE n),
                 ParseAttrs(SubSeq(inner, e, Len(inner))))

\* the least position of the set at or after from, 0 when there is none
NextIn(positions, from) ==
    LET later == {i \in positions : i >= from}
    IN  IF later = {} THEN 0 ELSE MinOf(later)

(* the token of s that starts at position pos and the position after it;
   lts and gts are the positions of "<" and of ">" in s *)
TokenAt(s, lts, gts, pos) ==
    LET lt == NextIn(lts, pos)
        gt == NextIn(gts, pos)
        e == NextIn({g \in gts : SubSeq(s, g - 2, g) = "-->"}, pos + 6)
        inner == SubSeq(s, pos + 1, gt - 1)
    IN  IF lt = 0
        THEN [tok |-> TextTok(SubSeq(s, pos, Len(s))), next |-> Len(s) + 1]
        ELSE IF lt > pos
        THEN [tok |-> TextTok(SubSeq(s, pos, lt - 1)), next |-> lt]
        ELSE IF SubSeq(s, pos, pos + 3) = "<!--"
        THEN IF e = 0
             THEN [tok |-> DeclTok(SubSeq(s, pos, Len(s)) \o "-->"), next |-> Len(s) + 1]
             ELSE [tok |-> DeclTok(SubSeq(s, pos, e)), next |-> e + 1]
        ELSE IF gt = 0
        THEN [tok |-> TextTok(SubSeq(s, pos, Len(s))), next |-> Len(s) + 1]
        ELSE IF StartsWith(inner, "!")
        THEN [tok |-> DeclTok(SubSeq(s, pos, gt)), next |-> gt + 1]
        ELSE IF StartsWith(inner, "/")
        THEN [tok |-> EndTok(ToLower(SubSeq(inner, 2, Len(inner)))), next |-> gt + 1]
        ELSE [tok |-> ParseTag(inner), next |-> gt + 1]

\* BeautifulSoup(s, 'html.parser'), read from position pos on
RECURSIVE TokensFrom(_, _, _, _)
TokensFrom(s, lts, gts, pos) ==
    IF pos > Len(s) THEN <<>>
    ELSE LET t == TokenAt(s, lts, gts, pos)
         IN  <<t.tok>> \o TokensFrom(s, lts, gts, t.next)

\* BeautifulSoup(s, 'html.parser')
Soup(s) ==
    TokensFrom(s, {i \in 1..Len(s) : At(s, i) = "<"},
               {i \in 1..Len(s) : At(s, i) = ">"}, 1)

\* str(soup) of one token; an element without content is written <name/>
StrTok(t) ==
    IF t.kind = "start"
    THEN "<" \o t.name \o AttrText(t.attrs)
         \o (IF t.name \in VoidTags THEN "/>" ELSE ">")
    ELSE IF t.kind = "end"
    THEN (IF t.name \in VoidTags THEN "" ELSE "</" \o t.name \o ">")
    ELSE t.text

\* str(soup)
RECURSIVE StrSoup(_)
StrSoup(soup) ==
    IF soup = <<>> THEN "" ELSE StrTok(Head(soup)) \o StrSoup(Tail(soup))

\* soup.find_all(name): the positions of the elements of that name
find_all(soup, name) ==
    {k \in 1..Len(soup) : soup[k].kind = "start" /\ soup[k].name = name}

\* tag.get(name): <<value>>, or <<>> when the attribute is absent
RECURSIVE Get(_, _)
Get(attrs, name) ==
    IF attrs = <<>> THEN <<>>
    ELSE IF Head(attrs)[1] = name THEN <<Head(attrs)[2]>>
    ELSE Get(Tail(attrs), name)

\* tag.get(name, ''): the value, '' when the attribute is absent
GetOr(attrs, name) == IF Get(attrs, name) = <<>> THEN "" ELSE Get(attrs, name)[1]

\* tag[name] = value, for an attribute the tag carries
RECURSIVE SetAttr(_, _, _)
SetAttr(attrs, name, value) ==
    IF attrs = <<>> THEN <<>>
    ELSE IF Head(attrs)[1] = name THEN <<<<name, value>>>> \o Tail(attrs)
    ELSE <<Head(attrs)>> \o SetAttr(Tail(attrs), name, value)

\* whether the element at position k lies inside an element of that name
Inside(soup, k, name) ==
    Cardinality({j \in 1..(k - 1) : soup[j].kind = "start" /\ soup[j].name = name})
    > Cardinality({j \in 1..(k - 1) : soup[j].kind = "end" /\ soup[j].name = name})

---------------------------------------------------------------------------
(* section_processor.py: the URL, link and form normalizer *)

\* the origin that is written in front of relative image URLs
FallbackOrigin == "https://www.bu.edu"

\* the scheme of an absolute URL, "" when the text has none
UrlScheme(url) ==
    LET c == Find(url, ":")
        s == Find(url, "/")
    IN  IF c = 0 \/ (s # 0 /\ s < c) THEN "" ELSE SubSeq(url, 1, c - 1)

\* scheme://host of an absolute URL
UrlOrigin(url) ==
    LET c == Find(url, "://")
        p == FindFrom(url, "/", c + 3)
    IN  IF p = 0 THEN url ELSE SubSeq(url, 1, p - 1)

\* the path of an absolute URL up to and including its last "/"
UrlDir(url) ==
    LET c == Find(url, "://")
        slashes == {i \in (c + 3)..Len(url) : At(url, i) = "/"}
    IN  IF slashes = {} THEN "/"
        ELSE SubSeq(url, Len(UrlOrigin(url)) + 1,
                    CHOOSE i \in slashes : \A j \in slashes : j <= i)

\* urllib.parse.urljoin(base, url) for a base scheme://host/path
urljoin(base, url) ==
    IF url = "" THEN base
    ELSE IF UrlScheme(url) # "" THEN url
    ELSE IF StartsWith(url, "//") THEN UrlScheme(base) \o ":" \o url
    ELSE IF StartsWith(url, "/") THEN UrlOrigin(base) \o url
    ELSE UrlOrigin(base) \o UrlDir(base) \o url

\* `if original_url:` for the optional argument
Truthy(url) == url # <<>> /\ url[1] # ""

\* the value written to img['src'] by the conservative pass
conservative_src(src, url) ==
    IF src = "" THEN src
    ELSE IF Truthy(url) THEN urljoin(url[1], src)
    ELSE IF StartsWith(src, "/") THEN FallbackOrigin \o src
    ELSE IF ~StartsWith(src, "http") THEN FallbackOrigin \o "/" \o src
    ELSE src

\* a pass that prefixes the host whatever the value is
combined_src_always(current_src) ==
    IF current_src = "" THEN current_src
    ELSE IF StartsWith(current_src, "/") THEN FallbackOrigin \o current_src
    ELSE FallbackOrigin \o "/" \o current_src

\* the value written to img['src'] by the pass over the assembled document
combined_src(current_src) ==
    IF current_src = "" THEN current_src
    ELSE IF StartsWith(current_src, "http") THEN current_src
    ELSE IF StartsWith(current_src, "/") THEN FallbackOrigin \o current_src
    ELSE FallbackOrigin \o "/" \o current_src

\* one URL of a srcset entry
srcset_url(url) ==
    IF ~StartsWith(url, "http")
    THEN IF StartsWith(url, "/") THEN FallbackOrigin \o url
         ELSE FallbackOrigin \o "/" \o url
    ELSE url

\* str.split(' ', 1)
SplitSpaceOnce(s) ==
    LET sp == Find(s, " ")
    IN  IF sp = 0 THEN <<s>> ELSE <<SubSeq(s, 1, sp - 1), SubSeq(s, sp + 1, Len(s))>>

(* url, size = src_item.strip().split(' ', 1) raises ValueError when the
   stripped entry holds no space *)
srcset_item_raises(src_item) ==
    Contains(" ", src_item) /\ Len(SplitSpaceOnce(Strip(src_item))) # 2

\* the text appended to new_srcset for one entry
srcset_item(src_item) ==
    IF Contains(" ", src_item)
    THEN LET parts == SplitSpaceOnce(Strip(src_item))
         IN  srcset_url(parts[1]) \o " " \o parts[2]
    ELSE srcset_url(Strip(src_item))

RECURSIVE new_srcset(_)
new_srcset(items) ==
    IF items = <<>> THEN <<>>
    ELSE <<srcset_item(Head(items))>> \o new_srcset(Tail(items))

\* the value of source['srcset'] after a pass
fix_srcset(srcset) ==
    IF srcset # "" /\ ~StartsWith(srcset, "http")
    THEN Join(", ", new_srcset(SplitComma(srcset)))
    ELSE srcset

\* whether the srcset loop raises on this value
srcset_raises(srcset) ==
    /\ srcset # "" /\ ~StartsWith(srcset, "http")
    /\ LET items == SplitComma(srcset)
       IN  \E i \in 1..Len(items) : srcset_item_raises(items[i])

\* a pass that severs every link, local ones too
fix_href_every(href) == IF href # "" THEN "#" ELSE href

\* the value of link['href'] after a pass
fix_href(href) == IF href # "" /\ StartsWith(href, "http") THEN "#" ELSE href

\* the attributes of a form after a pass: `if form.get('action')`
fix_action(attrs) ==
    IF Get(attrs, "action") # <<>> /\ Get(attrs, "action")[1] # ""
    THEN SetAttr(attrs, "action", "#")
    ELSE attrs

\* the links and forms of a parsed document after a pass
FixLinkToken(t) ==
    IF t.kind = "start" /\ t.name = "a"
    THEN [t EXCEPT !.attrs = SetAttr(t.attrs, "href", fix_href(GetOr(t.attrs, "href")))]
    ELSE IF t.kind = "start" /\ t.name = "form"
    THEN [t EXCEPT !.attrs = fix_action(t.attrs)]
    ELSE t

\* the sources of the picture elements after a pass
FixSourceToken(soup, k) ==
    LET t == soup[k]
    IN  IF t.kind = "start" /\ t.name = "source" /\ Inside(soup, k, "picture")
        THEN [t EXCEPT !.attrs = SetAttr(t.attrs, "srcset", fix_srcset(GetOr(t.attrs, "srcset")))]
        ELSE t

\* whether a pass over the pictures of the document raises
PicturesRaise(soup) ==
    \E k \in find_all(soup, "source") :
        Inside(soup, k, "picture") /\ srcset_raises(GetOr(soup[k].attrs, "srcset"))

\* the parsed document after the loops of process_entire_site_conservatively
ConservativeSoup(soup, url) ==
    [k \in 1..Len(soup) |->
        IF soup[k].kind = "start" /\ soup[k].name = "img"
        THEN [soup[k] EXCEPT !.attrs =
                 SetAttr(soup[k].attrs, "src",
                         conservative_src(GetOr(soup[k].attrs, "src"), url))]
        ELSE FixLinkToken(FixSourceToken(soup, k))]

\* fixed_html of process_entire_site_conservatively
fixed_html(full_html, url) == StrSoup(ConservativeSoup(Soup(full_html), url))

\* complete_html of process_entire_site_conservatively
complete_html(full_html, full_css, url) ==
    "<!DOCTYPE html>\n<html lang=\"en\">\n<head>\n"
    \o "    <meta charset=\"UTF-8\">\n"
    \o "    <meta name=\"viewport\" content=\"width=device-width, initial-scale=1.0\">\n"
    \o "    <title>Recreated Website</title>\n"
    \o "    <style>\n" \o full_css \o "\n    </style>\n</head>\n<body>\n"
    \o fixed_html(full_html, url) \o "\n</body>\n</html>"

\* the value process_entire_site_conservatively returns
process_entire_site_conservatively(full_html, full_css, url) ==
    [combined_html |-> complete_html(full_html, full_css, url),
     sections |-> <<[html |-> fixed_html(full_html, url),
                     css |-> full_css,
                     section_name |-> "entire-site",
                     description |-> "Entire website processed conservatively",
                     method |-> "conservative"]>>,
     method |-> "conservative"]

\* the parsed document after the loops of _process_combined_html
CombinedSoup(soup) ==
    [k \in 1..Len(soup) |->
        IF soup[k].kind = "start" /\ soup[k].name = "img"
        THEN [soup[k] EXCEPT !.attrs =
                 SetAttr(soup[k].attrs, "src", combined_src(GetOr(soup[k].attrs, "src")))]
        ELSE FixLinkToken(FixSourceToken(soup, k))]

\* _process_combined_html
process_combined_html(html_content) == StrSoup(CombinedSoup(Soup(html_content)))

\* _fix_links_only
fix_links_only(html_content) ==
    LET soup == Soup(html_content)
    IN  StrSoup([k \in 1..Len(soup) |-> FixLinkToken(soup[k])])

---------------------------------------------------------------------------
(* detect_sections as a process *)

InitDetect ==
    /\ pc = "detect"
    /\ html \in DetectDocs
    /\ css = "abc{x:1}"
    /\ css_rules = <<>>
    /\ idx = 0
    /\ filtered_rules = <<>>
    /\ result = ""
    /\ sections = <<>>
    /\ original_images = <<>>
    /\ original_url = <<>>
    /\ sorted_sections = <<>>
    /\ responses = <<>>
    /\ results = <<>>
    /\ combined = ""
    /\ norm_pass = ""
    /\ norm_text = <<>>
    /\ LateIdle

\* self.original_images: the absolute URL of every image that has a src
RECURSIVE OriginalImages(_, _, _)
OriginalImages(doc, i, url) ==
    IF i > Len(doc) THEN <<>>
    ELSE (IF doc[i].tag = "img" /\ GetOr(doc[i].attrs, "src") # ""
          THEN <<conservative_src(GetOr(doc[i].attrs, "src"), url)>>
          ELSE <<>>)
         \o OriginalImages(doc, i + 1, url)

\* self.original_images = {...}; 1. header = self._extract_header(soup)
DetectHeader ==
    /\ pc = "detect"
    /\ original_images' = OriginalImages(html, 1, original_url)
    /\ sections' = WithSection(sections, extract_header(html), "header", css,
                               "Site header with navigation and branding", 2)
    /\ pc' = "hero"
    /\ UNCHANGED <<html, css, css_rules, idx, filtered_rules, result>>
    /\ UNCHANGED <<processVars, normVars, lateVars>>

\* 2. hero = self._extract_hero(soup)
DetectHero ==
    /\ pc = "hero"
    /\ sections' = WithSection(sections, extract_hero(html), "hero", css,
                               "Hero banner or main promotional section", 2)
    /\ pc' = "main"
    /\ UNCHANGED <<html, css, css_rules, idx, filtered_rules, result>>
    /\ UNCHANGED <<original_images, processVars, normVars, lateVars>>

\* 3. main_content = self._extract_main_content_visual(full_html)
DetectMain ==
    /\ pc = "main"
    /\ sections' = WithSection(sections, extract_main_content_visual(html),
                               "main-content", css,
                               "Main content area with primary information", 1)
    /\ pc' = "sidebar"
    /\ UNCHANGED <<html, css, css_rules, idx, filtered_rules, result>>
    /\ UNCHANGED <<original_images, processVars, normVars, lateVars>>

\* 4. sidebar = self._extract_sidebar(soup)
DetectSidebar ==
    /\ pc = "sidebar"
    /\ sections' = WithSection(sections, extract_sidebar(html), "sidebar", css,
                               "Sidebar with secondary navigation or content", 3)
    /\ pc' = "footer"
    /\ UNCHANGED <<html, css, css_rules, idx, filtered_rules, result>>
    /\ UNCHANGED <<original_images, processVars, normVars, lateVars>>

\* 5. footer = self._extract_footer(soup); return sections
DetectFooter ==
    /\ pc = "footer"
    /\ sections' = WithSection(sections, extract_footer(html), "footer", css,
                               "Site footer with links and information", 4)
    /\ pc' = "detected"
    /\ UNCHANGED <<html, css, css_rules, idx, filtered_rules, result>>
    /\ UNCHANGED <<original_images, processVars, normVars, lateVars>>

NextDetect == DetectHeader \/ DetectHero \/ DetectMain \/ DetectSidebar \/ DetectFooter

SpecDetect == InitDetect /\ [][NextDetect]_vars

---------------------------------------------------------------------------
(* Properties of the detector *)

\* the sections of the list that carry a name
Named(name) == {k \in 1..Len(sections) : sections[k].name = name}

\* the tags of the page a selector matches
Matching(sel) == {i \in 1..Len(html) : Matches(sel, html[i])}

\* the region is the first tag, in document order, of the first selector of
\* the list that matches anything; there is no section when none matches
FirstMatchWins(name, selectors) ==
    LET live == {k \in 1..Len(selectors) : Matching(selectors[k]) # {}}
    IN  IF live = {} THEN Named(name) = {}
        ELSE /\ Cardinality(Named(name)) = 1
             /\ \A n \in Named(name) :
                   sections[n].html = Str(html, MinOf(Matching(selectors[MinOf(live)])))

(* C8: for the header, hero, sidebar and footer regions the section is the
   element matched by the first selector of the region's ordered list that
   matches anything, whatever the order of the elements in the document. *)
C8_FirstSelectorWins ==
    pc = "detected" =>
        /\ FirstMatchWins("header", header_selectors)
        /\ FirstMatchWins("hero", hero_selectors)
        /\ FirstMatchWins("sidebar", sidebar_selectors)
        /\ FirstMatchWins("footer", footer_selectors)

\* a page with a <header> and, before it, an element of class header: the
\* header section is the <header>
C8_Witness ==
    /\ pc = "detected"
    /\ \E i, j \in 1..Len(html) :
          /\ i < j
          /\ html[i].tag # "header" /\ Matches(SelClass("header"), html[i])
          /\ html[j].tag = "header"
          /\ \E n \in Named("header") : sections[n].html = Str(html, j)

\* the block containers inside the first body whose class string names no
\* header, footer, sidebar, nav or menu and whose markup has 500 characters
\* or more
Qualifying ==
    {j \in 1..Len(html) :
        /\ FindBody(html) # 0
        /\ IsDescendant(html, j, FindBody(html))
        /\ html[j].tag \in {"div", "section", "main", "article"}
        /\ \A w \in {"header", "footer", "sidebar", "nav", "menu"} :
              ~Contains(w, ToLower(Join(" ", html[j].class)))
        /\ Len(Str(html, j)) >= 500}

(* C9: the main-content section is the serialization of the longest of the
   div/section/main/article descendants of body whose class string names
   none of header, footer, sidebar, nav, menu and whose serialization has
   at least 500 characters; nothing else is ever selected. *)
C9_MainContentLargest ==
    pc = "detected" =>
        /\ Qualifying # {} => Cardinality(Named("main-content")) = 1
        /\ \A n \in Named("main-content") :
              \E j \in Qualifying :
                 /\ sections[n].html = Str(html, j)
                 /\ \A k \in Qualifying : Len(Str(html, k)) <= Len(Str(html, j))

\* a page where a longer element is passed over for its class and the
\* section is an element of exactly the least length
C9_Witness ==
    /\ pc = "detected"
    /\ \E n \in Named("main-content") :
          /\ Len(sections[n].html) = 500
          /\ \E j \in 1..Len(html) :
                /\ j \notin Qualifying
                /\ Len(Str(html, j)) > Len(sections[n].html)

(* C10: when the page has a body and no container qualifies as main
   content, detect_sections still yields a main-content section whose html
   is the body as a whole. *)
C10_BodyFallback ==
    (pc = "detected" /\ FindBody(html) # 0 /\ Qualifying = {}) =>
        \E n \in Named("main-content") : sections[n].html = Str(html, FindBody(html))

---------------------------------------------------------------------------
(* The normalizer as a process: one of the three passes is applied to a page,
   and then to its own output *)

\* number of times a pass is applied to a page
MaxPasses == 2

ImgPieces ==
    {"", "<img src=\"/foo.png\">", "<img src=\"//cdn.example.com/a.png\">",
     "<img src=\"pics/b.png\" alt=\"b\">", "<img src=\"https://cdn.example.com/c.png\">"}
PicturePieces ==
    {"", "<picture><source srcset=\"/a.png 1x, b.png 2x\"><img src=\"/a.png\"></picture>",
     "<picture><source srcset=\"https://cdn.example.com/a.png 1x, /b.png 2x\"></picture>",
     "<picture><source srcset=\"a.png 1x, b.png\"></picture>",
     "<video><source srcset=\"/v.png 1x\"></video>"}
LinkPieces ==
    {"", "<a href=\"https://other.example/x\">out</a>", "<a href=\"http://plain.example/\">old</a>",
     "<a href=\"/local\">in</a>", "<a name=\"top\">t</a>"}
FormPieces ==
    {"", "<form action=\"/submit\"><input name=\"q\"></form>", "<form action=\"\"></form>",
     "<form action=\"https://other.example/s\"></form>", "<form method=\"post\"></form>"}

\* a page with an image, a picture, two links and a form
FullPage ==
    "<div><img src=\"/foo.png\">"
    \o "<picture><source srcset=\"/a.png 1x, b.png 2x\"><img src=\"/a.png\"></picture>"
    \o "<a href=\"https://other.example/x\">out</a><a href=\"/local\">in</a>"
    \o "<form action=\"/submit\"><input name=\"q\"></form></div>"

\* the pages given to the normalizer
NormPages ==
    {i \o p : i \in ImgPieces, p \in PicturePieces}
    \cup {l \o f : l \in LinkPieces, f \in FormPieces}
    \cup {FullPage}

\* the original URLs given with a page, <<>> when none is supplied
NormUrls == {<<>>, <<"https://example.com/dir/page.html">>, <<"http://example.org">>}

InitNormalize ==
    /\ pc = "normalize"
    /\ html = <<>>
    /\ css = "abc{x:1}"
    /\ css_rules = <<>>
    /\ idx = 0
    /\ filtered_rules = <<>>
    /\ result = ""
    /\ sections = <<>>
    /\ original_images = <<>>
    /\ original_url \in NormUrls
    /\ sorted_sections = <<>>
    /\ responses = <<>>
    /\ results = <<>>
    /\ combined = ""
    /\ norm_pass = ""
    /\ norm_text \in {<<page>> : page \in NormPages}
    /\ LateIdle

\* the text the next pass is applied to
NormCurrent == norm_text[Len(norm_text)]

\* process_entire_site_conservatively(full_html, full_css, original_url)
NormalizeConservative ==
    /\ pc = "normalize"
    /\ norm_pass \in {"", "conservative"}
    /\ Len(norm_text) <= MaxPasses
    /\ norm_pass' = "conservative"
    /\ IF PicturesRaise(Soup(NormCurrent))
       THEN /\ pc' = "raised"
            /\ UNCHANGED <<norm_text, results, combined>>
       ELSE LET r == process_entire_site_conservatively(NormCurrent, css, original_url)
            IN  /\ norm_text' = Append(norm_text, r.sections[1].html)
                /\ results' = r.sections
                /\ combined' = r.combined_html
                /\ pc' = pc
    /\ UNCHANGED <<html, css, sections, original_url, sorted_sections, responses>>
    /\ UNCHANGED <<filterVars, original_images, lateVars>>

\* _process_combined_html(html_content)
NormalizeCombined ==
    /\ pc = "normalize"
    /\ norm_pass \in {"", "combined"}
    /\ Len(norm_text) <= MaxPasses
    /\ norm_pass' = "combined"
    /\ IF PicturesRaise(Soup(NormCurrent))
       THEN pc' = "raised" /\ UNCHANGED norm_text
       ELSE norm_text' = Append(norm_text, process_combined_html(NormCurrent)) /\ pc' = pc
    /\ UNCHANGED <<html, css, sections>>
    /\ UNCHANGED <<filterVars, original_images, processVars, lateVars>>

\* _fix_links_only(html_content)
NormalizeFixLinks ==
    /\ pc = "normalize"
    /\ norm_pass \in {"", "links"}
    /\ Len(norm_text) <= MaxPasses
    /\ norm_pass' = "links"
    /\ norm_text' = Append(norm_text, fix_links_only(NormCurrent))
    /\ UNCHANGED <<pc, html, css, sections>>
    /\ UNCHANGED <<filterVars, original_images, processVars, lateVars>>

NextNormalize == NormalizeConservative \/ NormalizeCombined \/ NormalizeFixLinks

SpecNormalize == InitNormalize /\ [][NextNormalize]_vars

---------------------------------------------------------------------------
(* Properties of the normalizer *)

\* the page before the first pass, parsed
NormIn == Soup(norm_text[1])
\* the page after n passes, parsed
NormOut(n) == Soup(norm_text[n + 1])
\* the numbers of the passes applied so far
Passes == 1..(Len(norm_text) - 1)
\* the passes that rewrite image URLs
ImagePasses == {"conservative", "combined"}

\* the URL of a srcset entry: its first word
EntryUrl(entry) == SplitSpaceOnce(Strip(entry))[1]

(* C12: after the conservative pass or the pass over the assembled document,
   with or without an original URL, every image src that was //host/path is
   https://host/path *)
C12_ProtocolRelativeGetsHttps ==
    norm_pass \in ImagePasses =>
        \A n \in Passes : \A k \in find_all(NormIn, "img") :
            LET src == GetOr(NormIn[k].attrs, "src")
            IN  StartsWith(src, "//") =>
                    GetOr(NormOut(n)[k].attrs, "src") = "https:" \o src

(* C13: with the original URL known, every root-relative image src /path is
   scheme+host of the original URL followed by /path, in the conservative pass
   and in the pass over the assembled document; the fallback host is used only
   when no original URL was supplied *)
C13_RootRelativeUsesOrigin ==
    norm_pass \in ImagePasses =>
        \A n \in Passes : \A k \in find_all(NormIn, "img") :
            LET src == GetOr(NormIn[k].attrs, "src")
                origin == IF Truthy(original_url) THEN UrlOrigin(original_url[1])
                          ELSE FallbackOrigin
            IN  StartsWith(src, "/") /\ ~StartsWith(src, "//") =>
                    GetOr(NormOut(n)[k].attrs, "src") = origin \o src

(* C14: after normalization every entry of every srcset is an absolute URL;
   a relative entry is resolved against the known origin (the original URL
   when supplied), also when it follows an absolute first entry *)
C14_SrcsetEntriesAbsolute ==
    norm_pass \in ImagePasses =>
        \A n \in Passes : \A k \in find_all(NormIn, "source") :
            Inside(NormIn, k, "picture") =>
                LET before == SplitComma(GetOr(NormIn[k].attrs, "srcset"))
                    after == SplitComma(GetOr(NormOut(n)[k].attrs, "srcset"))
                    origin == IF Truthy(original_url) THEN UrlOrigin(original_url[1])
                              ELSE FallbackOrigin
                IN  /\ Len(after) = Len(before)
                    /\ \A e \in 1..Len(before) :
                          IF StartsWith(EntryUrl(before[e]), "http")
                          THEN EntryUrl(after[e]) = EntryUrl(before[e])
                          ELSE /\ StartsWith(EntryUrl(after[e]), origin \o "/")
                               /\ EntryUrl(after[e]) = urljoin(origin \o "/", EntryUrl(before[e]))

(* C15: after any of the three passes no <a> has an href beginning with http:
   each such href is exactly #, and every other href is unchanged *)
C15_ExternalLinksSevered ==
    \A n \in Passes : \A k \in find_all(NormIn, "a") :
        LET href == GetOr(NormIn[k].attrs, "href")
            after == NormOut(n)[k].attrs
        IN  /\ ~StartsWith(GetOr(after, "href"), "http")
            /\ IF StartsWith(href, "http")
               THEN Get(after, "href") = <<"#">>
               ELSE Get(after, "href") = Get(NormIn[k].attrs, "href")

\* an absolute link and a local link have been through a pass
C15_Witness ==
    /\ Len(norm_text) >= 2
    /\ \E k \in find_all(NormIn, "a") :
          /\ StartsWith(GetOr(NormIn[k].attrs, "href"), "http")
          /\ Get(NormOut(1)[k].attrs, "href") = <<"#">>

(* C16: after normalization every <form> that carried an action attribute,
   whatever its value, has action = #; a form without one gains none *)
C16_FormActionsNeutral ==
    \A n \in Passes : \A k \in find_all(NormIn, "form") :
        IF Get(NormIn[k].attrs, "action") # <<>>
        THEN Get(NormOut(n)[k].attrs, "action") = <<"#">>
        ELSE Get(NormOut(n)[k].attrs, "action") = <<>>

(* C17: _process_combined_html, and the conservative normalization with the
   same origin, applied to its own output returns that output unchanged *)
C17_Idempotent ==
    norm_pass \in ImagePasses =>
        \A n \in Passes : n >= 2 => norm_text[n + 1] = norm_text[n]

\* a second pass has run over a page whose first pass rewrote an image,
\* a srcset, a link and a form
C17_Witness ==
    /\ norm_pass = "combined"
    /\ Len(norm_text) >= 3
    /\ norm_text[2] # norm_text[1]
    /\ Contains(FallbackOrigin \o "/foo.png", norm_text[3])
    /\ Contains("srcset=\"" \o FallbackOrigin \o "/a.png 1x, ", norm_text[3])
    /\ Contains("<a href=\"#\"", norm_text[3])
    /\ Contains("<form action=\"#\"", norm_text[3])

---------------------------------------------------------------------------
(* section_processor.py: per-section processing and the assembler *)

\* the place of a section in a list sorted by priority: after every section
\* whose priority is not greater
RECURSIVE InsertByPriority(_, _)
InsertByPriority(sorted, section) ==
    IF sorted = <<>> THEN <<section>>
    ELSE IF section.priority < Head(sorted).priority THEN <<section>> \o sorted
    ELSE <<Head(sorted)>> \o InsertByPriority(Tail(sorted), section)

RECURSIVE SortFrom(_, _)
SortFrom(secs, sorted) ==
    IF secs = <<>> THEN sorted
    ELSE SortFrom(Tail(secs), InsertByPriority(sorted, Head(secs)))

\* a loop that takes the sections in the order of detection
detection_order(secs) == secs

\* sorted(sections, key=lambda x: x.priority): stable
sorted_by_priority(secs) == SortFrom(secs, <<>>)

(* The grave accent of a markdown fence cannot be written in a TLA+ string;
   the texts of the model write it as an apostrophe. *)
Backquote == "'"
Fence == Backquote \o Backquote \o Backquote

(* _extract_code_block: the text between the first fence of the block type
   followed by a newline and the next fence, stripped; "" without a match *)
extract_code_block(block_type, text) ==
    LET opening == Fence \o block_type \o "\n"
        start == Find(text, opening)
        stop == IF start = 0 THEN 0 ELSE FindFrom(text, Fence, start + Len(opening))
    IN  IF start = 0 \/ stop = 0 THEN ""
        ELSE Strip(SubSeq(text, start + Len(opening), stop - 1))

\* len(soup.find_all('img'))
CountImages(text) == Cardinality(find_all(Soup(text), "img"))

\* a check of the images alone
UnfaithfulImagesOnly(html_code, section_html) ==
    CountImages(html_code) < CountImages(section_html)

\* a check that also rejects a rewrite of exactly half the length
UnfaithfulAtHalf(html_code, section_html) ==
    \/ CountImages(html_code) < CountImages(section_html)
    \/ 2 * Len(html_code) <= Len(section_html)

\* ai_images < original_images or len(html_code) < len(section.html) * 0.5
Unfaithful(html_code, section_html) ==
    \/ CountImages(html_code) < CountImages(section_html)
    \/ 2 * Len(html_code) < Len(section_html)

\* a handler of the failed call that gives the section up: no html, no css
process_section_blank(section, outcome) ==
    [html |-> "", css |-> "", section_name |-> section.name,
     description |-> section.description,
     error |-> IF outcome.ok THEN "" ELSE outcome.text]

(* process_section: the record returned for a section, given the outcome of
   the model call: an answer text, or an exception with its message *)
process_section(section, outcome) ==
    IF ~outcome.ok
    THEN [html |-> section.html, css |-> section.css,
          section_name |-> section.name, description |-> section.description,
          error |-> outcome.text]
    ELSE LET content == outcome.text
             html_code == extract_code_block("html", content)
             css_code == extract_code_block("css", content)
         IN  IF Unfaithful(html_code, section.html)
             THEN [html |-> fix_links_only(section.html), css |-> section.css,
                   section_name |-> section.name,
                   description |-> section.description,
                   method |-> "original_with_fixes"]
             ELSE [html |-> html_code, css |-> css_code,
                   section_name |-> section.name,
                   description |-> section.description,
                   method |-> "ai_generated"]

\* combined_css: a comment and the css of every record that has css
RECURSIVE combined_css(_)
combined_css(processed) ==
    IF processed = <<>> THEN <<>>
    ELSE (IF Head(processed).css # ""
          THEN <<"/* " \o Head(processed).section_name \o " styles */",
                 Head(processed).css>>
          ELSE <<>>)
         \o combined_css(Tail(processed))

\* an assembler that writes the fragments without their comments
RECURSIVE body_unlabelled(_)
body_unlabelled(processed) ==
    IF processed = <<>> THEN <<>>
    ELSE (IF Head(processed).html # "" THEN <<Head(processed).html>> ELSE <<>>)
         \o body_unlabelled(Tail(processed))

\* the lines of the body: a comment and the html of every record that has html
RECURSIVE body_lines(_)
body_lines(processed) ==
    IF processed = <<>> THEN <<>>
    ELSE (IF Head(processed).html # ""
          THEN <<"<!-- " \o Head(processed).section_name \o " -->",
                 Head(processed).html>>
          ELSE <<>>)
         \o body_lines(Tail(processed))

\* the list combined_html of combine_sections
combined_html(processed) ==
    <<"<!DOCTYPE html>", "<html lang=\"en\">", "<head>",
      "    <meta charset=\"UTF-8\">",
      "    <meta name=\"viewport\" content=\"width=device-width, initial-scale=1.0\">",
      "    <title>Recreated Website</title>", "    <style>">>
    \o combined_css(processed)
    \o <<"    </style>", "</head>", "<body>">>
    \o body_lines(processed)
    \o <<"</body>", "</html>">>

\* the value combine_sections returns
combine_sections(processed) ==
    [combined_html |-> process_combined_html(Join("\n", combined_html(processed))),
     sections |-> processed]

---------------------------------------------------------------------------
(* Inputs of the generative pipeline *)

\* a page with a header, one large div and a footer; the header holds two
\* images and a link, the footer a form; the div serializes to 600 characters
ExamplePage ==
    <<Tag("body", <<>>, "", "", 0, ""),
      Tag("header", <<>>, "", "", 1, "h"),
      TagWith("img", <<<<"src", "/logo.png">>>>, 2, ""),
      TagWith("img", <<<<"src", "pics/b.png">>, <<"alt", "b">>>>, 2, ""),
      TagWith("a", <<<<"href", "https://example.com/about">>>>, 2, "about"),
      Tag("div", <<"content">>, "", "", 1, Rep("y", 573)),
      Tag("footer", <<>>, "", "", 1, "f"),
      TagWith("form", <<<<"action", "/subscribe">>>>, 7, "")>>

\* a page with all five regions; the main section holds a style element
FivePage ==
    <<Tag("body", <<>>, "", "", 0, ""),
      Tag("header", <<>>, "", "", 1, "h"),
      Tag("div", <<"hero-image">>, "", "", 1, "i"),
      TagWith("img", <<<<"src", "//cdn.example.com/hero.png">>>>, 3, ""),
      Tag("section", <<>>, "", "", 1, Rep("y", 550)),
      TagWith("style", <<>>, 5, "p{color:red}"),
      Tag("aside", <<>>, "", "", 1, "s"),
      Tag("footer", <<>>, "", "", 1, "f")>>

\* a page with a sidebar and a footer only
SidePage ==
    <<Tag("body", <<>>, "", "", 0, ""),
      Tag("aside", <<>>, "", "", 1, "s"),
      TagWith("a", <<<<"href", "/local">>>>, 2, "in"),
      Tag("footer", <<>>, "", "", 1, "f")>>

\* a page without any region
PlainPage ==
    <<Tag("body", <<>>, "", "", 0, ""),
      Tag("p", <<>>, "", "", 1, "x")>>

\* the pages given to detect_sections, each with the original URL passed
GenInputs ==
    {<<ExamplePage, <<>>>>, <<ExamplePage, <<"https://example.com/dir/page.html">>>>,
     <<FivePage, <<"https://example.com/dir/page.html">>>>,
     <<SidePage, <<>>>>, <<PlainPage, <<>>>>}

\* an answer of the model holding an html block and a css block
Answer(html_code, css_code) ==
    [ok |-> TRUE,
     text |-> "Here is the section.\n\n" \o Fence \o "html\n" \o html_code
              \o "\n" \o Fence \o "\n\n" \o Fence \o "css\n" \o css_code
              \o "\n" \o Fence]

(* the outcomes of the model call for a section: an exception; the section
   returned as it is; a rewrite without images and without css of half the
   section's length, rounded down: exactly half of an even length, less than
   half of an odd one *)
Outcomes(section) ==
    {[ok |-> FALSE, text |-> "Connection error."],
     Answer(section.html, "p{margin:0}"),
     Answer("<p>" \o Rep("w", Len(section.html) \div 2 - 7) \o "</p>", "")}

---------------------------------------------------------------------------
(* detect_sections, process_all_sections and combine_sections as a process *)

InitGenerate ==
    /\ pc = "detect"
    /\ \E input \in GenInputs : html = input[1] /\ original_url = input[2]
    /\ css = "abc{x:1}"
    /\ css_rules = <<>>
    /\ idx = 0
    /\ filtered_rules = <<>>
    /\ result = ""
    /\ sections = <<>>
    /\ original_images = <<>>
    /\ sorted_sections = <<>>
    /\ responses = <<>>
    /\ results = <<>>
    /\ combined = ""
    /\ norm_pass = ""
    /\ norm_text = <<>>
    /\ LateIdle

\* results = []; sorted_sections = sorted(sections, key=lambda x: x.priority)
ProcessStart ==
    /\ pc = "detected"
    /\ sorted_sections' = sorted_by_priority(sections)
    /\ results' = <<>>
    /\ pc' = "process"
    /\ UNCHANGED <<html, css, sections, original_images, original_url, responses, combined>>
    /\ UNCHANGED <<filterVars, normVars, lateVars>>

\* result = await self.process_section(section); results.append(result)
ProcessSection ==
    /\ pc = "process"
    /\ sorted_sections # <<>>
    /\ \E outcome \in Outcomes(Head(sorted_sections)) :
          /\ responses' = Append(responses, outcome)
          /\ results' = Append(results, process_section(Head(sorted_sections), outcome))
    /\ sorted_sections' = Tail(sorted_sections)
    /\ UNCHANGED <<pc, html, css, sections, original_images, original_url, combined>>
    /\ UNCHANGED <<filterVars, normVars, lateVars>>

\* return results; combine_sections(results)
CombineSections ==
    /\ pc = "process"
    /\ sorted_sections = <<>>
    /\ IF PicturesRaise(Soup(Join("\n", combined_html(results))))
       THEN pc' = "raised" /\ UNCHANGED combined
       ELSE pc' = "combined" /\ combined' = combine_sections(results).combined_html
    /\ UNCHANGED <<html, css, sections, original_images, original_url,
                   sorted_sections, responses, results>>
    /\ UNCHANGED <<filterVars, normVars, lateVars>>

NextGenerate == NextDetect \/ ProcessStart \/ ProcessSection \/ CombineSections

SpecGenerate == InitGenerate /\ [][NextGenerate]_vars

---------------------------------------------------------------------------
(* Properties of the generative pipeline *)

SectionNames == {"header", "hero", "main-content", "sidebar", "footer"}

\* the place of a section name in the order of processing
Rank(name) ==
    CASE name = "main-content" -> 1
      [] name = "header" -> 2
      [] name = "hero" -> 3
      [] name = "sidebar" -> 4
      [] name = "footer" -> 5
      [] OTHER -> 0

\* whether no selector of the list matches a tag of the page
NoMatch(selectors) == \A k \in 1..Len(selectors) : Matching(selectors[k]) = {}

(* C11: detect_sections emits at most one section per name of the five,
   omits every region without a match, and on a page with a <header>, a
   large div and a <footer> (and no hero or sidebar) yields exactly header,
   main-content, footer; process_all_sections handles the sections in
   ascending priority: main-content, header, hero, sidebar, footer *)
C11_OnePerNameInPriorityOrder ==
    /\ pc # "raised"
    /\ \A i, j \in 1..Len(sections) :
          /\ sections[i].name \in SectionNames
          /\ i # j => sections[i].name # sections[j].name
    /\ pc \in {"detected", "process", "combined"} =>
          /\ NoMatch(header_selectors) => Named("header") = {}
          /\ NoMatch(hero_selectors) => Named("hero") = {}
          /\ NoMatch(sidebar_selectors) => Named("sidebar") = {}
          /\ NoMatch(footer_selectors) => Named("footer") = {}
          /\ Qualifying = {} => Named("main-content") = {}
          /\ ( /\ Matching(SelTag("header")) # {} /\ Matching(SelTag("footer")) # {}
               /\ Qualifying # {}
               /\ NoMatch(hero_selectors) /\ NoMatch(sidebar_selectors) )
             => [k \in 1..Len(sections) |-> sections[k].name]
                   = <<"header", "main-content", "footer">>
    /\ \A i, j \in 1..Len(results) :
          i < j => Rank(results[i].section_name) < Rank(results[j].section_name)
    /\ pc = "combined" =>
          {results[i].section_name : i \in 1..Len(results)}
             = {sections[k].name : k \in 1..Len(sections)}

\* the page with a header, a large div and a footer has been processed:
\* main-content first, then header, then footer
C11_Witness ==
    /\ pc = "combined"
    /\ [k \in 1..Len(sections) |-> sections[k].name] = <<"header", "main-content", "footer">>
    /\ [i \in 1..Len(results) |-> results[i].section_name]
          = <<"main-content", "header", "footer">>

\* the places of a text where sub occurs
Places(sub, text) ==
    {i \in 1..(Len(text) - Len(sub) + 1) :
        /\ SubSeq(text, i, i + 3) = SubSeq(sub, 1, 4)
        /\ SubSeq(text, i, i + Len(sub) - 1) = sub}
\* the number of places of a text where sub occurs
CountOf(sub, text) == Cardinality(Places(sub, text))

\* the css fragment of a record as the assembler labels it
CssLabelled(rec) == "/* " \o rec.section_name \o " styles */\n" \o rec.css \o "\n"
\* the html fragment of a record as the assembler labels it and the final
\* pass normalizes it
HtmlLabelled(rec) ==
    "<!-- " \o rec.section_name \o " -->\n" \o process_combined_html(rec.html) \o "\n"

\* the labelled fragments are in the document once each, in the order of
\* the records, the css before </head> and the html after <body>
FragmentsInOrder ==
    LET n == Len(results)
        cssAt == [i \in 1..n |-> Places(CssLabelled(results[i]), combined)]
        htmlAt == [i \in 1..n |-> Places(HtmlLabelled(results[i]), combined)]
        headEnd == Find(combined, "</head>")
        bodyStart == Find(combined, "<body>")
    IN  /\ \A i \in 1..n :
              /\ results[i].css # "" =>
                    /\ Cardinality(cssAt[i]) = 1
                    /\ \A c \in cssAt[i] : c < headEnd
              /\ CountOf("/* " \o results[i].section_name \o " styles */", combined)
                    = (IF results[i].css # "" THEN 1 ELSE 0)
              /\ results[i].html # "" =>
                    /\ Cardinality(htmlAt[i]) = 1
                    /\ \A h \in htmlAt[i] : h > bodyStart
              /\ CountOf("<!-- " \o results[i].section_name \o " -->", combined)
                    = (IF results[i].html # "" THEN 1 ELSE 0)
        /\ \A i, j \in 1..n :
              i < j =>
                 /\ Rank(results[i].section_name) < Rank(results[j].section_name)
                 /\ (results[i].css # "" /\ results[j].css # "") =>
                       \A c \in cssAt[i], d \in cssAt[j] : c < d
                 /\ (results[i].html # "" /\ results[j].html # "") =>
                       \A h \in htmlAt[i], g \in htmlAt[j] : h < g

\* the style elements of a parsed document
StyleBlocks(soup) == find_all(soup, "style")
\* the style elements of a parsed document's head
HeadStyleBlocks(soup) ==
    {k \in StyleBlocks(soup) :
        \E e \in k..Len(soup) : soup[e].kind = "end" /\ soup[e].name = "head"}

(* C18 as stated: the document of combine_sections has exactly one <style>
   block; the css fragments are in it in ascending priority, each right after
   a comment naming its section; the html fragments are in the body in the
   same order, each right after a comment naming its section; every section
   with html is there once *)
C18_SingleStyleBlockInOrder ==
    pc = "combined" =>
        /\ Cardinality(StyleBlocks(Soup(combined))) = 1
        /\ FragmentsInOrder

(* C18, amended: the head of the document of combine_sections has exactly
   one <style> block (style elements of a section's own html come with that
   html into the body); the css fragments are in it in ascending priority,
   each right after a comment naming its section; the html fragments are in
   the body in the same order, each right after a comment naming its
   section; every section with html is there once *)
C18_OneHeadStyleBlockInOrder ==
    pc = "combined" =>
        /\ Cardinality(HeadStyleBlocks(Soup(combined))) = 1
        /\ FragmentsInOrder

\* a document of five sections, one of them without css, another bringing
\* its own style element
C18_Witness ==
    /\ pc = "combined"
    /\ Len(results) = 5
    /\ \E i \in 1..Len(results) : results[i].css = ""
    /\ Cardinality(StyleBlocks(Soup(combined))) = 2
    /\ Cardinality(HeadStyleBlocks(Soup(combined))) = 1

\* the section the i-th record was made from
Processed(i) == sorted_by_priority(sections)[i]

\* the number of <img tags written in a text
ImgCount(text) == CountOf("<img", text)

\* two texts that differ at most in the href of <a> and the action of <form>
OnlyLinksAndFormsDiffer(before, after) ==
    /\ Len(Soup(after)) = Len(Soup(before))
    /\ \A k \in 1..Len(Soup(before)) :
          LET b == Soup(before)[k]
              a == Soup(after)[k]
          IN  /\ a.kind = b.kind /\ a.name = b.name /\ a.text = b.text
              /\ Len(a.attrs) = Len(b.attrs)
              /\ \A n \in 1..Len(b.attrs) :
                    /\ a.attrs[n][1] = b.attrs[n][1]
                    /\ a.attrs[n][2] # b.attrs[n][2] =>
                          /\ <<b.name, b.attrs[n][1]>> \in {<<"a", "href">>, <<"form", "action">>}
                          /\ a.attrs[n][2] = "#"

(* C19: for an answered model call, process_section returns the original
   fragment (link and form normalization only, the section's css, method
   original_with_fixes) exactly when the rewrite has fewer <img> than the
   original or is shorter than half its length; otherwise the rewritten html
   and css with method ai_generated; a rewrite with 0 images against an
   original with 2 falls back *)
C19_FallbackExactlyWhenUnfaithful ==
    \A i \in 1..Len(results) :
        responses[i].ok =>
            LET section == Processed(i)
                rewrite == extract_code_block("html", responses[i].text)
                fewer == ImgCount(rewrite) < ImgCount(section.html)
                shorter == 2 * Len(rewrite) < Len(section.html)
            IN  /\ results[i].section_name = section.name
                /\ IF fewer \/ shorter
                   THEN /\ results[i].method = "original_with_fixes"
                        /\ results[i].css = section.css
                        /\ OnlyLinksAndFormsDiffer(section.html, results[i].html)
                   ELSE /\ results[i].method = "ai_generated"
                        /\ results[i].html = rewrite
                        /\ results[i].css = extract_code_block("css", responses[i].text)
                /\ (ImgCount(rewrite) = 0 /\ ImgCount(section.html) = 2) =>
                      results[i].method = "original_with_fixes"

\* one run in which a rewrite of exactly half the length is accepted, a
\* rewrite of sufficient length without the two images of the original is
\* refused, and a rewrite shorter than half is refused
C19_Witness ==
    \E i, j, k \in 1..Len(results) :
        /\ responses[i].ok /\ responses[j].ok /\ responses[k].ok
        /\ 2 * Len(extract_code_block("html", responses[i].text)) = Len(Processed(i).html)
        /\ results[i].method = "ai_generated"
        /\ ImgCount(Processed(j).html) = 2
        /\ ImgCount(extract_code_block("html", responses[j].text)) = 0
        /\ 2 * Len(extract_code_block("html", responses[j].text)) >= Len(Processed(j).html)
        /\ results[j].method = "original_with_fixes"
        /\ ImgCount(Processed(k).html) = 0
        /\ 2 * Len(extract_code_block("html", responses[k].text)) < Len(Processed(k).html)
        /\ results[k].method = "original_with_fixes"
        /\ results[k].html # Processed(k).html

(* C20: every per-section record has the fields section_name, description,
   html, css and method, with method one of ai_generated,
   original_with_fixes, conservative *)
C20_RecordsCarryMethod ==
    \A i \in 1..Len(results) :
        /\ {"section_name", "description", "html", "css", "method"} \subseteq DOMAIN results[i]
        /\ results[i].method \in {"ai_generated", "original_with_fixes", "conservative"}

---------------------------------------------------------------------------
(* process_all_sections at the grain of its awaits: for each section in
   turn the delay, the model call, and the return of process_section *)

\* a log that leaves the delay out
NotDelayed(log, name) == log

\* await asyncio.sleep(1), the delay that precedes the model call
Delayed(log, name) == Append(log, [kind |-> "delay", name |-> name])

\* process_section is entered for the next section and its delay elapses
SectionDelay ==
    /\ pc = "process"
    /\ sorted_sections # <<>>
    /\ events' = Delayed(events, Head(sorted_sections).name)
    /\ pc' = "slept"
    /\ UNCHANGED <<html, css, sections, original_images, processVars>>
    /\ UNCHANGED <<filterVars, normVars, in_flight, cloneVars>>

\* self.client.messages.create(...) is issued
SectionCall ==
    /\ pc = "slept"
    /\ in_flight' = in_flight \cup {Head(sorted_sections).name}
    /\ events' = Append(events, [kind |-> "call", name |-> Head(sorted_sections).name])
    /\ pc' = "call"
    /\ UNCHANGED <<html, css, sections, original_images, processVars>>
    /\ UNCHANGED <<filterVars, normVars, cloneVars>>

\* the call answers or raises; process_section returns its record and the
\* loop appends it: results.append(result)
SectionReturn ==
    /\ pc = "call"
    /\ \E outcome \in Outcomes(Head(sorted_sections)) :
          /\ responses' = Append(responses, outcome)
          /\ results' = Append(results, process_section(Head(sorted_sections), outcome))
    /\ in_flight' = in_flight \ {Head(sorted_sections).name}
    /\ events' = Append(events, [kind |-> "append", name |-> Head(sorted_sections).name])
    /\ sorted_sections' = Tail(sorted_sections)
    /\ pc' = "process"
    /\ UNCHANGED <<html, css, sections, original_images, original_url, combined>>
    /\ UNCHANGED <<filterVars, normVars, cloneVars>>

\* return results
ProcessReturn ==
    /\ pc = "process"
    /\ sorted_sections = <<>>
    /\ pc' = "processed"
    /\ UNCHANGED <<html, css, sections, original_images, processVars>>
    /\ UNCHANGED <<filterVars, normVars, lateVars>>

NextSequential ==
    NextDetect \/ ProcessStart \/ SectionDelay \/ SectionCall \/ SectionReturn
       \/ ProcessReturn

SpecSequential == InitGenerate /\ [][NextSequential]_vars

---------------------------------------------------------------------------
(* Properties of process_all_sections *)

\* the positions of the log that hold an event of the kind
EventsOf(kind) == {k \in 1..Len(events) : events[k].kind = kind}

(* C21: at most one model call is in flight; the call for a section is
   issued only after the record of the section before it was appended; calls
   are issued in ascending priority; every call comes right after the delay
   of its section, so no two calls follow each other without a delay *)
C21_OneCallAtATimeAfterDelay ==
    /\ Cardinality(in_flight) <= 1
    /\ in_flight # {} =>
          /\ pc = "call"
          /\ in_flight = {Head(sorted_sections).name}
          /\ Len(results) = Cardinality(EventsOf("call")) - 1
    /\ pc # "call" => Len(results) = Cardinality(EventsOf("call"))
    /\ \A k \in EventsOf("call") :
          /\ k > 1
          /\ events[k - 1] = [kind |-> "delay", name |-> events[k].name]
          /\ \A j \in EventsOf("call") :
                j < k =>
                   /\ Rank(events[j].name) < Rank(events[k].name)
                   /\ \E a \in EventsOf("append") :
                         j < a /\ a < k /\ events[a].name = events[j].name
                   /\ \E w \in EventsOf("delay") : j < w /\ w < k

\* the third call of a run is in flight, the records of the two sections
\* before it are appended
C21_Witness ==
    /\ pc = "call"
    /\ Cardinality(in_flight) = 1
    /\ Cardinality(EventsOf("call")) = 3
    /\ Len(results) = 2


(* C22: a failed model call never aborts process_all_sections: the record of
   that section holds the section's original html and css, the sections
   after it are processed all the same, and the list returned has exactly
   one record per detected section *)
C22_FailedCallKeepsOriginal ==
    /\ pc # "raised"
    /\ \A i \in 1..Len(results) :
          /\ results[i].section_name = Processed(i).name
          /\ ~responses[i].ok =>
                /\ results[i].html = Processed(i).html
                /\ results[i].css = Processed(i).css
    /\ pc \in {"process", "slept", "call"} =>
          Len(results) + Len(sorted_sections) = Len(sections)
    /\ pc = "processed" =>
          /\ Len(results) = Len(sections)
          /\ \A k \in 1..Len(sections) :
                Cardinality({i \in 1..Len(results) :
                                results[i].section_name = sections[k].name}) = 1

\* a run of five sections has returned; the call of the second section
\* failed and the three sections after it were answered
C22_Witness ==
    /\ pc = "processed"
    /\ Len(results) = 5
    /\ ~responses[2].ok
    /\ \A i \in 3..5 : responses[i].ok
    /\ results[2].html = Processed(2).html

---------------------------------------------------------------------------
(* Properties of conservative mode *)

\* the attributes conservative mode may rewrite
NormalizedAttrs ==
    {<<"img", "src">>, <<"source", "srcset">>, <<"a", "href">>, <<"form", "action">>}

\* two texts with the same elements and text, differing at most in the
\* values of the attributes conservative mode may rewrite
SameButNormalized(before, after) ==
    /\ Len(Soup(after)) = Len(Soup(before))
    /\ \A k \in 1..Len(Soup(before)) :
          LET b == Soup(before)[k]
              a == Soup(after)[k]
          IN  /\ a.kind = b.kind /\ a.name = b.name /\ a.text = b.text
              /\ Len(a.attrs) = Len(b.attrs)
              /\ \A n \in 1..Len(b.attrs) :
                    /\ a.attrs[n][1] = b.attrs[n][1]
                    /\ a.attrs[n][2] # b.attrs[n][2] =>
                          <<b.name, b.attrs[n][1]>> \in NormalizedAttrs

(* C28: process_entire_site_conservatively returns exactly one record, named
   entire-site with method conservative, whose css is the input stylesheet
   and whose html differs from the input page only in img src, srcset, link
   href and form action; the combined document has that css in one <style>
   block and that html in the body *)
C28_WholePageIsOneSection ==
    norm_pass = "conservative" =>
        /\ pc # "raised"
        /\ Len(norm_text) >= 2
        /\ Len(results) = 1
        /\ results[1].section_name = "entire-site"
        /\ results[1].method = "conservative"
        /\ results[1].css = css
        /\ results[1].html = norm_text[Len(norm_text)]
        /\ SameButNormalized(norm_text[Len(norm_text) - 1], results[1].html)
        /\ Cardinality(StyleBlocks(Soup(combined))) = 1
        /\ Find(combined, "<style>\n" \o css \o "\n    </style>") > 0
        /\ Find(combined, "<body>\n" \o results[1].html \o "\n</body>") > 0

---------------------------------------------------------------------------
(* inline_css.py: inline_css *)

\* str.replace(old, new): every occurrence of old, from the left, none
\* overlapping
RECURSIVE Replace(_, _, _)
Replace(s, old, new) ==
    LET at == Find(s, old)
    IN  IF at = 0 THEN s
        ELSE SubSeq(s, 1, at - 1) \o new
                \o Replace(SubSeq(s, at + Len(old), Len(s)), old, new)

\* inline_css(html, css)
inline_css(html_text, css_text) ==
    IF html_text = "" \/ css_text = "" THEN html_text
    ELSE IF Contains("<head>", html_text)
    THEN Replace(html_text, "<head>",
                 "<head>\n" \o "<style>\n" \o css_text \o "\n</style>")
    ELSE Replace(html_text, "<html>",
                 "<html>\n" \o "<head>\n<style>\n" \o css_text \o "\n</style>\n</head>")

\* the documents given to inline_css
InlineHtmls ==
    {"",
     "<html><head><title>t</title></head><body>x</body></html>",
     "<html><body>x</body></html>",
     "<!DOCTYPE html>\n<html lang=\"en\">\n<body>x</body>\n</html>",
     "<html lang=\"en\"><head><meta charset=\"UTF-8\"></head><body>x</body></html>",
     "<html><head lang=\"en\"><title>t</title></head><body>x</body></html>",
     "<HTML><HEAD></HEAD><BODY>x</BODY></HTML>",
     "<div>x</div>",
     "<p>a</p><p>b</p>",
     "<!DOCTYPE html>\n<html>\n<head>\n</head>\n<body>\n<p>a</p>\n</body>\n</html>"}

\* the stylesheets given to inline_css
InlineCss ==
    {"", "p{margin:0}", "body{color:red}\na{x:1}", "/* c */", "h1{}", "a{b:c}"}

InitInline ==
    /\ pc = "inline"
    /\ html \in InlineHtmls
    /\ css \in InlineCss
    /\ css_rules = <<>>
    /\ idx = 0
    /\ filtered_rules = <<>>
    /\ result = ""
    /\ sections = <<>>
    /\ original_images = <<>>
    /\ original_url = <<>>
    /\ sorted_sections = <<>>
    /\ responses = <<>>
    /\ results = <<>>
    /\ combined = ""
    /\ norm_pass = ""
    /\ norm_text = <<>>
    /\ LateIdle

\* combined_html = inline_css(html_generated, css_generated)
InlineCssCall ==
    /\ pc = "inline"
    /\ result' = inline_css(html, css)
    /\ pc' = "inlined"
    /\ UNCHANGED <<html, css, css_rules, idx, filtered_rules, sections>>
    /\ UNCHANGED <<original_images, processVars, normVars, lateVars>>

NextInline == InlineCssCall

SpecInline == InitInline /\ [][NextInline]_vars

(* C29: for every non-empty html and non-empty css the string inline_css
   returns holds the css inside a <style> element *)
C29_CssNeverDropped ==
    (pc = "inlined" /\ html # "" /\ css # "") =>
        \E k \in find_all(Soup(result), "style") :
            /\ k < Len(Soup(result))
            /\ Soup(result)[k + 1].kind = "text"
            /\ Contains(css, Soup(result)[k + 1].text)

---------------------------------------------------------------------------
(* inline_css.py: extract_code_blocks.  The regular expressions are applied
   with re.DOTALL | re.IGNORECASE; each is modelled by the positions at
   which it can match and the choice re.search makes among them: the
   leftmost start, a greedy run as long as a match allows, a lazy group as
   short as a match allows. *)

MaxOf(S) == CHOOSE x \in S : \A y \in S : x >= y

\* the positions of text at which sub is written
Occurrences(text, sub) ==
    {i \in 1..(Len(text) - Len(sub) + 1) : SubSeq(text, i, i + Len(sub) - 1) = sub}

\* the positions of text at which word is written, letters in either case
OccurrencesFold(text, word) ==
    {i \in 1..(Len(text) - Len(word) + 1) :
        ToLower(SubSeq(text, i, i + Len(word) - 1)) = word}

\* the position of the first character at or after p outside the class,
\* Len(text) + 1 when the class runs to the end
RunEnd(text, class, p) ==
    LET out == {k \in p..Len(text) : At(text, k) \notin class}
    IN  IF out = {} THEN Len(text) + 1 ELSE MinOf(out)

(* a fence with its label, white space that ends in a newline, the group,
   and a newline with the closing fence: found, and the group *)
FencedBlock(label, text) ==
    LET word == Fence \o label
        closes == Occurrences(text, "\n" \o Fence)
        Newlines(i) ==
            {n \in (i + Len(word))..(RunEnd(text, SpaceChar, i + Len(word)) - 1) :
                At(text, n) = "\n" /\ NextIn(closes, n + 1) # 0}
        matching == {i \in OccurrencesFold(text, word) : Newlines(i) # {}}
    IN  IF matching = {} THEN [found |-> FALSE, group |-> ""]
        ELSE LET n == MaxOf(Newlines(MinOf(matching)))
             IN  [found |-> TRUE,
                  group |-> SubSeq(text, n + 1, NextIn(closes, n + 1) - 1)]

\* <style ...>, the group, </style>: found, and the group
StyleBlock(text) ==
    LET gts == Occurrences(text, ">")
        ends == OccurrencesFold(text, "</style>")
        Close(i) == IF NextIn(gts, i + 6) = 0 THEN 0
                    ELSE NextIn(ends, NextIn(gts, i + 6) + 1)
        matching == {i \in OccurrencesFold(text, "<style") : Close(i) # 0}
    IN  IF matching = {} THEN [found |-> FALSE, group |-> ""]
        ELSE LET i == MinOf(matching)
             IN  [found |-> TRUE,
                  group |-> SubSeq(text, NextIn(gts, i + 6) + 1, Close(i) - 1)]

(* any HTML-like content: a tag, and everything up to the first closing tag
   after it; "" when there is none *)
HtmlLike(text) ==
    LET lts == Occurrences(text, "<")
        gts == Occurrences(text, ">")
        closers == {c \in Occurrences(text, "</") : NextIn(gts, c + 2) >= c + 3}
        TagEnd(i) == IF NextIn(gts, i + 1) >= i + 2 THEN NextIn(gts, i + 1) ELSE 0
        matching == {i \in lts : TagEnd(i) # 0 /\ NextIn(closers, TagEnd(i) + 1) # 0}
    IN  IF matching = {} THEN ""
        ELSE LET i == MinOf(matching)
                 c == NextIn(closers, TagEnd(i) + 1)
             IN  SubSeq(text, i, NextIn(gts, c + 2))

IdentChar == WordChar \cup {"-"}

(* the end of the CSS rule that starts at s: an optional "." or "#", a letter,
   identifier characters, white space, "{" and everything up to the first
   "}"; 0 when no rule starts at s *)
RuleEnd(text, s) ==
    LET a == IF At(text, s) \in {".", "#"} THEN s + 1 ELSE s
        brace == IF a > Len(text) THEN 0
                 ELSE RunEnd(text, SpaceChar, RunEnd(text, IdentChar, a + 1))
    IN  IF a > Len(text) \/ At(text, a) \notin (Lower \cup Upper) THEN 0
        ELSE IF brace > Len(text) \/ At(text, brace) # "{" THEN 0
        ELSE NextIn(Occurrences(text, "}"), brace + 1)

\* re.findall of the rule pattern: the rules from position pos on
RECURSIVE RulesFrom(_, _)
RulesFrom(text, pos) ==
    LET starts == {s \in pos..Len(text) : RuleEnd(text, s) # 0}
    IN  IF starts = {} THEN <<>>
        ELSE <<SubSeq(text, MinOf(starts), RuleEnd(text, MinOf(starts)))>>
                \o RulesFrom(text, RuleEnd(text, MinOf(starts)) + 1)

\* re.findall of "{", anything but "}", "}": the blocks from position pos on
RECURSIVE BracesFrom(_, _)
BracesFrom(text, pos) ==
    LET closes == Occurrences(text, "}")
        starts == {s \in pos..Len(text) : At(text, s) = "{" /\ NextIn(closes, s + 1) # 0}
    IN  IF starts = {} THEN <<>>
        ELSE <<SubSeq(text, MinOf(starts), NextIn(closes, MinOf(starts) + 1))>>
                \o BracesFrom(text, NextIn(closes, MinOf(starts) + 1) + 1)

(* extract_code_blocks(text): the pair (html_code, css_code).  Of the html
   patterns only the two fenced ones have a group, and the loop takes a match
   only if it has one; of the css patterns the fenced ones and the <style>
   one do. *)
extract_code_blocks(text) ==
    LET html_fenced == FencedBlock("html", text)
        html_found == IF html_fenced.found THEN Strip(html_fenced.group) ELSE ""
        html_code == IF html_found # "" THEN html_found ELSE HtmlLike(text)
        css_fenced == FencedBlock("css", text)
        css_found == IF css_fenced.found THEN Strip(css_fenced.group)
                     ELSE IF StyleBlock(text).found THEN Strip(StyleBlock(text).group)
                     ELSE ""
        css_code == IF css_found # "" THEN css_found
                    ELSE IF RulesFrom(text, 1) # <<>> THEN Join("\n", RulesFrom(text, 1))
                    ELSE Join("\n", BracesFrom(text, 1))
        html_start == IF OccurrencesFold(text, "<html") # {}
                      THEN MinOf(OccurrencesFold(text, "<html"))
                      ELSE IF OccurrencesFold(text, "<!doctype") # {}
                      THEN MinOf(OccurrencesFold(text, "<!doctype"))
                      ELSE 0
    IN  IF html_code = "" /\ css_code = "" /\ html_start # 0
        THEN <<SubSeq(text, html_start, Len(text)), css_code>>
        ELSE <<html_code, css_code>>

---------------------------------------------------------------------------
(* The extraction of the code blocks from an answer of the model, by
   process_section and by extract_code_blocks *)

\* the sections whose answers are examined
ExtractSections ==
    {WebsiteSection("header",
                    "<header><img src=\"a.png\"><img src=\"b.png\">"
                       \o "<a href=\"https://x.example/\">h</a></header>",
                    "abc{x:1}", "Site header with navigation and branding", 2),
     WebsiteSection("main-content", "<main><img src=\"c.png\"><p>text</p></main>",
                    "abc{x:1}", "Main content area", 1),
     WebsiteSection("footer", "<footer>f<form action=\"/subscribe\"></form></footer>",
                    "abc{x:1}", "Site footer", 4)}

(* answers to the prompt of a section: well formed; with the label in upper
   case; without a label; with the html fence not closed, alone and before
   a css block; with blanks after the label; with an empty block; without
   any fence; a refusal; nothing *)
AnswerTexts(section) ==
    {Answer(section.html, "p{margin:0}").text,
     Fence \o "HTML\n" \o section.html \o "\n" \o Fence \o "\n"
        \o Fence \o "CSS\np{margin:0}\n" \o Fence,
     Fence \o "\n" \o section.html \o "\n" \o Fence,
     Fence \o "html\n" \o section.html,
     Fence \o "html\n" \o section.html \o "\n" \o Fence \o "css\np{margin:0}\n" \o Fence,
     Fence \o "html  \n" \o section.html \o "\n" \o Fence,
     Fence \o "html\n\n" \o Fence,
     section.html \o "\n<style>p{margin:0}</style>",
     "I cannot recreate this section.",
     ""}

InitExtract ==
    /\ pc = "extract"
    /\ html = <<>>
    /\ css = "abc{x:1}"
    /\ css_rules = <<>>
    /\ idx = 0
    /\ filtered_rules = <<>>
    /\ result = ""
    /\ \E section \in ExtractSections :
          /\ sections = <<section>>
          /\ \E text \in AnswerTexts(section) :
                responses = <<[ok |-> TRUE, text |-> text]>>
    /\ original_images = <<>>
    /\ original_url = <<>>
    /\ sorted_sections = <<>>
    /\ results = <<>>
    /\ combined = ""
    /\ norm_pass = ""
    /\ norm_text = <<>>
    /\ LateIdle

\* process_section, from the answer on
ExtractInSection ==
    /\ pc = "extract"
    /\ results = <<>>
    /\ results' = <<process_section(sections[1], responses[1])>>
    /\ UNCHANGED <<pc, html, css, sections, original_images, original_url,
                   sorted_sections, responses, combined>>
    /\ UNCHANGED <<filterVars, normVars, lateVars>>

\* html_generated, css_generated = extract_code_blocks(raw_output)
ExtractBlocks ==
    /\ pc = "extract"
    /\ blocks = <<>>
    /\ blocks' = extract_code_blocks(responses[1].text)
    /\ UNCHANGED <<pc, html, css, sections, original_images, processVars>>
    /\ UNCHANGED <<filterVars, normVars, callVars, scrapeVars, endpointVars>>

NextExtract == ExtractInSection \/ ExtractBlocks

SpecExtract == InitExtract /\ [][NextExtract]_vars

(* C26: extracting the blocks never raises; an answer whose html fence has
   no label, an upper-case label or no end never gives the section an empty
   html: the record holds the extracted block, or else the original
   fragment *)
C26_MalformedAnswerKeepsFragment ==
    /\ pc # "raised"
    /\ results # <<>> =>
          LET r == results[1]
              text == responses[1].text
          IN  /\ "method" \in DOMAIN r
              /\ r.html # ""
              /\ r.method = "ai_generated" =>
                    /\ Contains(Fence \o "html\n" \o r.html, text)
                       \/ Contains(Fence \o "html\n\n" \o r.html, text)
                    /\ Contains(r.html \o "\n" \o Fence, text)
              /\ r.method # "ai_generated" =>
                    /\ r.method = "original_with_fixes"
                    /\ OnlyLinksAndFormsDiffer(sections[1].html, r.html)
              /\ ~Contains(Fence \o "html\n", text) => r.method = "original_with_fixes"
              /\ Occurrences(text, Fence) \subseteq {Find(text, Fence)} =>
                    r.method = "original_with_fixes"
    /\ blocks # <<>> =>
          /\ Len(blocks) = 2
          /\ Contains(blocks[1], responses[1].text)
          /\ Contains(sections[1].html, responses[1].text) => blocks[1] # ""

\* an answer with the label in upper case has gone through both extractions:
\* the section keeps its original fragment
C26_Witness ==
    /\ results # <<>>
    /\ blocks # <<>>
    /\ Contains(Fence \o "HTML\n", responses[1].text)
    /\ results[1].method = "original_with_fixes"
    /\ results[1].html # ""
    /\ blocks[1] = sections[1].html

---------------------------------------------------------------------------
(* scraper.py: scrape_website *)

\* the number of stylesheet links the loop visits
MaxCssFiles == 8
\* the number of characters kept of one stylesheet
CssFileLimit == 15000

\* the absolute URL of a reference found in the page at url
absolute_url(url, ref) ==
    IF StartsWith(ref, "//") THEN "https:" \o ref
    ELSE IF StartsWith(ref, "/") THEN UrlOrigin(url) \o ref
    ELSE IF StartsWith(ref, "http") THEN ref
    ELSE urljoin(url, ref)

(* soup.title.string if soup.title else "Untitled": <<text>>, or <<>> for
   None, which .string is for a title without a child or with several *)
TitleOf(soup) ==
    IF find_all(soup, "title") = {} THEN <<"Untitled">>
    ELSE LET k == MinOf(find_all(soup, "title"))
         IN  IF /\ k + 2 <= Len(soup)
                /\ soup[k + 1].kind = "text"
                /\ soup[k + 2].kind = "end" /\ soup[k + 2].name = "title"
             THEN <<soup[k + 1].text>>
             ELSE <<>>

\* the elements at the positions, in document order, each through f
RECURSIVE InOrder(_, _, _)
InOrder(soup, positions, from) ==
    IF NextIn(positions, from) = 0 THEN <<>>
    ELSE <<soup[NextIn(positions, from)]>>
            \o InOrder(soup, positions, NextIn(positions, from) + 1)

\* images: the absolute URL of every img that has a src
RECURSIVE ImageUrls(_, _)
ImageUrls(url, imgs) ==
    IF imgs = <<>> THEN <<>>
    ELSE (IF GetOr(Head(imgs).attrs, "src") # ""
          THEN <<absolute_url(url, GetOr(Head(imgs).attrs, "src"))>>
          ELSE <<>>) \o ImageUrls(url, Tail(imgs))

\* style.get_text() for the style element at position k
StyleText(soup, k) ==
    IF k < Len(soup) /\ soup[k + 1].kind = "text" THEN soup[k + 1].text ELSE ""

\* css_contents after the loop over soup.find_all('style')
RECURSIVE InlineStyles(_, _)
InlineStyles(soup, from) ==
    IF NextIn(find_all(soup, "style"), from) = 0 THEN ""
    ELSE StyleText(soup, NextIn(find_all(soup, "style"), from)) \o "\n"
            \o InlineStyles(soup, NextIn(find_all(soup, "style"), from) + 1)

\* soup.find_all('link', rel='stylesheet'): rel is a list of words
StylesheetLinks(soup) ==
    InOrder(soup,
            {k \in find_all(soup, "link") :
                Contains(" stylesheet ", " " \o GetOr(soup[k].attrs, "rel") \o " ")},
            1)

\* a stylesheet gone: everything gathered before is dropped with it
css_lost_on_failure(css_text, status, body) ==
    IF status = 200
    THEN css_text \o (IF Len(body) > CssFileLimit THEN SubSeq(body, 1, CssFileLimit) ELSE body)
            \o "\n"
    ELSE ""

(* css_contents after the fetch of one stylesheet: the body, cut to the
   limit, and a newline are added for status 200; nothing for another status
   or an exception *)
css_after_fetch(css_text, status, body) ==
    IF status = 200
    THEN css_text \o (IF Len(body) > CssFileLimit THEN SubSeq(body, 1, CssFileLimit) ELSE body)
            \o "\n"
    ELSE css_text

\* the CSS written for the computed styles of the page
RECURSIVE computed_properties(_)
computed_properties(properties) ==
    IF properties = <<>> THEN ""
    ELSE (IF Head(properties)[2] \notin {"", "initial", "normal"}
          THEN "    " \o Head(properties)[1] \o ": " \o Head(properties)[2] \o ";\n"
          ELSE "") \o computed_properties(Tail(properties))

RECURSIVE computed_css(_)
computed_css(styles) ==
    IF styles = <<>> THEN ""
    ELSE "\n" \o Head(styles)[1] \o " {\n" \o computed_properties(Head(styles)[2]) \o "}\n"
            \o computed_css(Tail(styles))

\* summary = f"Website: {title}\nImages: {len(images)}\nCSS rules: ..."
summary_of(title, images, css_text) ==
    "Website: " \o title \o "\nImages: " \o ToString(Len(images))
       \o "\nCSS rules: " \o ToString(Cardinality(Occurrences(css_text, "}")) + 1)

---------------------------------------------------------------------------
(* Inputs of the scraper: the pages a site serves and the answers to the
   fetches of its stylesheets *)

Twice(s) == s \o s
\* a stylesheet longer than the limit
LongCss ==
    "/*long*/" \o Twice(Twice(Twice(Twice(Twice(Twice(Twice(
       Twice(Twice(Twice(Twice(Twice(Twice(Twice("a{}"))))))))))))))

\* a page with a title, a style element, three stylesheets and two images
StyledPage ==
    "<html><head><title>Shop</title><style>body{margin:0}</style>"
    \o "<link rel=\"stylesheet\" href=\"/a.css\">"
    \o "<link href=\"//cdn.example.com/b.css\" rel=\"stylesheet\">"
    \o "<link rel=\"stylesheet\" href=\"c.css\">"
    \o "</head><body><img src=\"/i.png\"><img src=\"//cdn.example.com/j.png\">"
    \o "<p>x</p></body></html>"

\* a page without a title; one link has no href, one is no stylesheet
BarePage ==
    "<html><head><link rel=\"icon\" href=\"/favicon.ico\">"
    \o "<link rel=\"stylesheet\">"
    \o "<link rel=\"alternate stylesheet\" href=\"https://static.example.net/d.css\">"
    \o "</head><body><img alt=\"none\"><img src=\"k.png\"></body></html>"

\* a page whose title has no text
UntitledPage ==
    "<html><head><title></title>"
    \o "<link rel=\"stylesheet\" href=\"/a.css\">"
    \o "</head><body><p>x</p></body></html>"

\* a page with more stylesheets than the loop visits
ManySheetsPage ==
    "<html><head><title>Many</title>"
    \o "<link rel=\"stylesheet\" href=\"https://many.example/1.css\">"
    \o "<link rel=\"stylesheet\" href=\"https://many.example/2.css\">"
    \o "<link rel=\"stylesheet\" href=\"https://many.example/3.css\">"
    \o "<link rel=\"stylesheet\" href=\"https://many.example/4.css\">"
    \o "<link rel=\"stylesheet\" href=\"https://many.example/5.css\">"
    \o "<link rel=\"stylesheet\" href=\"https://many.example/6.css\">"
    \o "<link rel=\"stylesheet\" href=\"https://many.example/7.css\">"
    \o "<link rel=\"stylesheet\" href=\"https://many.example/8.css\">"
    \o "<link rel=\"stylesheet\" href=\"https://many.example/9.css\">"
    \o "</head><body><p>x</p></body></html>"

ScrapePages == {StyledPage, BarePage, UntitledPage, ManySheetsPage}

\* the URLs that are scraped
ScrapeUrls == {"https://example.com/dir/page.html"}

(* the answers to the fetch of a stylesheet: status 200 with its text,
   another status, an exception or a timeout *)
FetchOutcomes(css_url) ==
    IF StartsWith(css_url, "https://many.example/")
    THEN {[status |-> 200, body |-> "/*" \o css_url \o "*/"],
          [status |-> 0, body |-> "TimeoutError"]}
    ELSE {[status |-> 200,
           body |-> IF css_url = "https://cdn.example.com/b.css" THEN LongCss
                    ELSE "/*" \o css_url \o "*/a{b:c}"],
          [status |-> 404, body |-> "Not Found"],
          [status |-> 0, body |-> "Cannot connect to host"]}

\* the answers of page.evaluate: an exception, or the styles by selector
ComputedOutcomes ==
    {[ok |-> FALSE, styles |-> <<>>],
     [ok |-> TRUE, styles |-> <<>>],
     [ok |-> TRUE,
      styles |-> << <<".nav", << <<"color", "rgb(0, 0, 0)">>, <<"display", "initial">>,
                                 <<"margin", "">> >> >> >>]}

---------------------------------------------------------------------------
(* scrape_website as a process, at the grain of its awaits *)

InitScrapeWith(pages) ==
    /\ pc = "launch"
    /\ html = <<>>
    /\ css = ""
    /\ css_rules = <<>>
    /\ idx = 0
    /\ filtered_rules = <<>>
    /\ result = ""
    /\ sections = <<>>
    /\ original_images = <<>>
    /\ original_url \in {<<url>> : url \in ScrapeUrls}
    /\ sorted_sections = <<>>
    /\ responses = <<>>
    /\ results = <<>>
    /\ combined = ""
    /\ norm_pass = ""
    /\ norm_text = <<>>
    /\ CallIdle
    /\ blocks = <<>>
    /\ browser = "none"
    /\ close_calls = 0
    /\ page_content \in pages
    /\ page_info = <<>>
    /\ css_contents = ""
    /\ stylesheets = <<>>
    /\ css_files_processed = 0
    /\ fetches = <<>>
    /\ context = <<>>
    /\ failure = ""

InitScrape == InitScrapeWith(ScrapePages) /\ EndpointIdle

\* what no step of the scraper changes
ScrapeFrame ==
    UNCHANGED <<html, css, sections, original_images, processVars, filterVars,
                normVars, callVars, blocks, endpointVars>>

\* browser = await p.chromium.launch(headless=True)
ScrapeLaunch ==
    /\ pc = "launch"
    /\ \/ browser' = "open" /\ pc' = "new_page" /\ UNCHANGED failure
       \/ failure' = "Executable doesn't exist" /\ pc' = "raised" /\ UNCHANGED browser
    /\ UNCHANGED <<close_calls, page_content, page_info, css_contents, stylesheets,
                   css_files_processed, fetches, context>>
    /\ ScrapeFrame

\* page = await browser.new_page(), before the try statement
ScrapeNewPage ==
    /\ pc = "new_page"
    /\ \/ pc' = "goto" /\ UNCHANGED failure
       \/ failure' = "Target closed" /\ pc' = "raised"
    /\ UNCHANGED <<browser, close_calls, page_content, page_info, css_contents,
                   stylesheets, css_files_processed, fetches, context>>
    /\ ScrapeFrame

\* await page.goto(url, wait_until="networkidle")
ScrapeGoto ==
    /\ pc = "goto"
    /\ \/ pc' = "content" /\ UNCHANGED failure
       \/ failure' = "net::ERR_NAME_NOT_RESOLVED" /\ pc' = "finally"
    /\ UNCHANGED <<browser, close_calls, page_content, page_info, css_contents,
                   stylesheets, css_files_processed, fetches, context>>
    /\ ScrapeFrame

(* html = await page.content(); the page is parsed, its title, its images,
   the text of its style elements and its stylesheet links are taken *)
ScrapeContent ==
    /\ pc = "content"
    /\ page_info' = [title |-> TitleOf(Soup(page_content)),
                     images |-> ImageUrls(original_url[1],
                                          InOrder(Soup(page_content),
                                                  find_all(Soup(page_content), "img"), 1))]
    /\ css_contents' = InlineStyles(Soup(page_content), 1)
    /\ stylesheets' = StylesheetLinks(Soup(page_content))
    /\ css_files_processed' = 0
    /\ pc' = "css"
    /\ UNCHANGED <<browser, close_calls, page_content, fetches, context, failure>>
    /\ ScrapeFrame

\* one turn of the loop over the stylesheet links
ScrapeStylesheet ==
    /\ pc = "css"
    /\ stylesheets # <<>>
    /\ css_files_processed < MaxCssFiles
    /\ IF GetOr(Head(stylesheets).attrs, "href") # ""
       THEN LET css_url == absolute_url(original_url[1],
                                        GetOr(Head(stylesheets).attrs, "href"))
            IN  \E outcome \in FetchOutcomes(css_url) :
                   /\ fetches' = Append(fetches, [url |-> css_url, status |-> outcome.status,
                                                  body |-> outcome.body])
                   /\ css_contents' = css_after_fetch(css_contents, outcome.status,
                                                      outcome.body)
       ELSE UNCHANGED <<fetches, css_contents>>
    /\ css_files_processed' = css_files_processed + 1
    /\ stylesheets' = Tail(stylesheets)
    /\ UNCHANGED <<pc, browser, close_calls, page_content, page_info, context, failure>>
    /\ ScrapeFrame

(* the loop ends or breaks at the limit; computed styles are evaluated and
   added, the summary is made and the ScrapedContext is built: its title
   must be a string *)
ScrapeFinish ==
    /\ pc = "css"
    /\ stylesheets = <<>> \/ css_files_processed >= MaxCssFiles
    /\ \E outcome \in ComputedOutcomes :
          /\ css_contents' = IF outcome.ok THEN css_contents \o computed_css(outcome.styles)
                             ELSE css_contents
          /\ IF page_info.title = <<>>
             THEN /\ failure' = "1 validation error for ScrapedContext"
                  /\ UNCHANGED context
             ELSE /\ context' = [title |-> page_info.title[1],
                                 images |-> page_info.images,
                                 summary |-> summary_of(page_info.title[1], page_info.images,
                                                        css_contents'),
                                 css_contents |-> css_contents',
                                 html |-> page_content,
                                 url |-> original_url[1]]
                  /\ UNCHANGED failure
    /\ pc' = "finally"
    /\ UNCHANGED <<browser, close_calls, page_content, page_info, stylesheets,
                   css_files_processed, fetches>>
    /\ ScrapeFrame

\* finally: await browser.close(); then the context is returned or the
\* exception raised again
ScrapeClose ==
    /\ pc = "finally"
    /\ browser' = "closed"
    /\ close_calls' = close_calls + 1
    /\ pc' = IF failure = "" THEN "returned" ELSE "raised"
    /\ UNCHANGED <<page_content, page_info, css_contents, stylesheets,
                   css_files_processed, fetches, context, failure>>
    /\ ScrapeFrame

NextScrape ==
    ScrapeLaunch \/ ScrapeNewPage \/ ScrapeGoto \/ ScrapeContent \/ ScrapeStylesheet
       \/ ScrapeFinish \/ ScrapeClose

SpecScrape == InitScrape /\ [][NextScrape]_vars

---------------------------------------------------------------------------
(* Properties of the scraper *)

\* what the stylesheets fetched add to css_contents, in the order fetched
RECURSIVE FetchedCss(_)
FetchedCss(done) ==
    IF done = <<>> THEN ""
    ELSE (IF Head(done).status = 200
          THEN (IF Len(Head(done).body) > CssFileLimit
                THEN SubSeq(Head(done).body, 1, CssFileLimit)
                ELSE Head(done).body) \o "\n"
          ELSE "") \o FetchedCss(Tail(done))

\* the URLs of the links that have a href
RECURSIVE LinkUrls(_, _)
LinkUrls(url, links) ==
    IF links = <<>> THEN <<>>
    ELSE (IF GetOr(Head(links).attrs, "href") # ""
          THEN <<absolute_url(url, GetOr(Head(links).attrs, "href"))>>
          ELSE <<>>) \o LinkUrls(url, Tail(links))

\* the links within the limit of the loop
LinksInLimit(links) ==
    SubSeq(links, 1, IF Len(links) > MaxCssFiles THEN MaxCssFiles ELSE Len(links))

(* C25: a stylesheet whose fetch fails (exception, timeout, status other than
   200) is skipped alone: css_contents keeps what was gathered before it,
   the links after it are fetched as they would be without the failure (all
   those within the limit of the loop), and the scrape still returns a
   ScrapedContext *)
C25_FailedStylesheetSkippedAlone ==
    LET soup == Soup(page_content)
        links == StylesheetLinks(soup)
        gathered == InlineStyles(soup, 1) \o FetchedCss(fetches)
        fetched == [i \in 1..Len(fetches) |-> fetches[i].url]
    IN  /\ pc = "css" =>
              /\ css_contents = gathered
              /\ stylesheets = SubSeq(links, css_files_processed + 1, Len(links))
              /\ fetched = LinkUrls(original_url[1], SubSeq(links, 1, css_files_processed))
              /\ failure = ""
        /\ (pc \in {"finally", "returned", "raised"} /\ page_info # <<>>) =>
              /\ fetched = LinkUrls(original_url[1], LinksInLimit(links))
              /\ StartsWith(css_contents, gathered)
              /\ page_info.title # <<>> =>
                    /\ failure = ""
                    /\ context # <<>>
                    /\ context.css_contents = css_contents
                    /\ pc # "raised"

\* a scrape has returned its context after three fetches of which the second
\* failed: the first and the third stylesheet are in css_contents
C25_Witness ==
    /\ pc = "returned"
    /\ Len(fetches) = 3
    /\ fetches[1].status = 200
    /\ fetches[2].status # 200
    /\ fetches[3].status = 200
    /\ Contains(fetches[1].body \o "\n" \o fetches[3].body \o "\n", context.css_contents)

(* C30: once the browser is launched it is closed exactly once before
   scrape_website returns or raises, on every path *)
C30_BrowserClosedOnce ==
    /\ close_calls <= 1
    /\ (pc \in {"returned", "raised"} /\ browser # "none") =>
          /\ browser = "closed"
          /\ close_calls = 1

---------------------------------------------------------------------------
(* main.py: the /generate endpoint; conservative_clone.py: the script *)

\* Path(name).write_text(text): the file holds the text, whatever it held
write_text(fs, name, text) == (name :> text) @@ fs

\* the text from a position on, with a backslash before every character at
\* the positions and n for a newline
RECURSIVE json_escaped(_, _, _)
json_escaped(s, at, from) ==
    LET k == NextIn(at, from)
    IN  IF k = 0 THEN SubSeq(s, from, Len(s))
        ELSE SubSeq(s, from, k - 1) \o "\\"
                \o (IF SubSeq(s, k, k) = "\n" THEN "n" ELSE SubSeq(s, k, k))
                \o json_escaped(s, at, k + 1)

\* a string as json.dumps writes it
json_string(s) ==
    "\"" \o json_escaped(s, {i \in 1..Len(s) : SubSeq(s, i, i) \in {"\\", "\"", "\n"}}, 1)
         \o "\""

\* a list of strings as json.dumps(indent=2) writes it at depth 1
RECURSIVE json_items(_)
json_items(list) ==
    IF list = <<>> THEN ""
    ELSE "\n    " \o json_string(Head(list))
            \o (IF Len(list) > 1 THEN "," ELSE "") \o json_items(Tail(list))

json_list(list) == IF list = <<>> THEN "[]" ELSE "[" \o json_items(list) \o "\n  ]"

\* json.dumps(context_dict, indent=2, default=str)
json_dumps(ctx) ==
    "{\n  \"title\": " \o json_string(ctx.title)
    \o ",\n  \"images\": " \o json_list(ctx.images)
    \o ",\n  \"summary\": " \o json_string(ctx.summary)
    \o ",\n  \"css_contents\": " \o json_string(ctx.css_contents)
    \o ",\n  \"html\": " \o json_string(ctx.html)
    \o ",\n  \"url\": " \o json_string(ctx.url) \o "\n}"

\* a page with a title, one stylesheet and one image
TitledPage ==
    "<html><head><title>Home</title>"
    \o "<link rel=\"stylesheet\" href=\"/a.css\">"
    \o "</head><body><img src=\"/i.png\"><p>x</p></body></html>"

\* a page whose picture has a srcset entry without a descriptor
PicturePage ==
    "<html><head><title>Pic</title></head><body>"
    \o "<picture><source srcset=\"a.png 1x, b.png\"></picture>"
    \o "<a href=\"https://other.example/\">x</a></body></html>"

\* the pages that are cloned
ClonePages == {TitledPage, BarePage, UntitledPage, PicturePage}

\* the two ways of cloning: the endpoint and the script
CloneModes == {"generate", "conservative"}

\* the answers of client.messages.create in /generate: a text, or an exception
GenerateAnswers ==
    {[ok |-> TRUE,
      text |-> "Here is the page.\n" \o Fence \o "html\n<html>\n<head>\n</head>\n"
                  \o "<body>\n<p>x</p>\n</body>\n</html>\n" \o Fence \o "\n"
                  \o Fence \o "css\np { margin: 0; }\n" \o Fence \o "\n"],
     [ok |-> TRUE, text |-> "I cannot recreate this page."],
     [ok |-> FALSE, text |-> "Error code: 529 - overloaded_error"]}

InitClone ==
    /\ InitScrapeWith(ClonePages)
    /\ mode \in CloneModes
    /\ files = << >>
    /\ model_calls = 0
    /\ raw_output = ""
    /\ reply = <<>>
    /\ ops = <<>>

\* an answer that hides the cause of the failure
scraping_failed_opaque(e) == [status |-> 500, detail |-> "Internal Server Error"]

\* HTTPException(status_code=500, detail=f"Scraping failed: {e}")
scraping_failed(e) == [status |-> 500, detail |-> "Scraping failed: " \o e]

\* what no step around the scrape changes
CloneFrame ==
    UNCHANGED <<html, css, sections, original_images, original_url, sorted_sections,
                responses, filterVars, normVars, callVars, scrapeVars, mode, ops>>

\* except Exception as e: raise HTTPException(500, f"Scraping failed: {e}")
GenerateScrapeFailed ==
    /\ pc = "raised"
    /\ mode = "generate"
    /\ reply' = scraping_failed(failure)
    /\ pc' = "replied"
    /\ UNCHANGED <<files, model_calls, raw_output, blocks, results, combined>>
    /\ CloneFrame

(* the context is saved to generated/context.json; the CSS is filtered and
   the prompt is built from the context, which writes nothing *)
GenerateSaveContext ==
    /\ pc = "returned"
    /\ mode = "generate"
    /\ files' = write_text(files, "generated/context.json", json_dumps(context))
    /\ pc' = "model"
    /\ UNCHANGED <<model_calls, raw_output, reply, blocks, results, combined>>
    /\ CloneFrame

(* response = client.messages.create(...): the answer's text, or
   except Exception as e: raise HTTPException(500, f"Claude API failed: {e}") *)
GenerateModelCall ==
    /\ pc = "model"
    /\ model_calls' = model_calls + 1
    /\ \E answer \in GenerateAnswers :
          IF answer.ok
          THEN /\ raw_output' = answer.text
               /\ pc' = "extract"
               /\ UNCHANGED reply
          ELSE /\ reply' = [status |-> 500, detail |-> "Claude API failed: " \o answer.text]
               /\ pc' = "replied"
               /\ UNCHANGED raw_output
    /\ UNCHANGED <<files, blocks, results, combined>>
    /\ CloneFrame

(* the code blocks are extracted, the CSS is inlined, the three files are
   written and the documents are returned *)
GenerateFinish ==
    /\ pc = "extract"
    /\ LET extracted == extract_code_blocks(raw_output)
           inlined == inline_css(extracted[1], extracted[2])
       IN  /\ blocks' = extracted
           /\ combined' = inlined
           /\ files' = write_text(
                         write_text(
                           write_text(files, "generated/recreated_page.html", extracted[1]),
                           "generated/styles.css", extracted[2]),
                         "generated/recreated_combined.html", inlined)
           /\ reply' = [status |-> 200,
                        body |-> [combined_html |-> inlined,
                                  html |-> extracted[1], css |-> extracted[2]]]
    /\ pc' = "replied"
    /\ UNCHANGED <<model_calls, raw_output, results>>
    /\ CloneFrame

\* conservative_clone raises out of asyncio.run(scrape_website(url)); main exits
ConservativeScrapeFailed ==
    /\ pc = "raised"
    /\ mode = "conservative"
    /\ reply' = [status |-> 1, detail |-> "Error during conservative clone: " \o failure]
    /\ pc' = "exited"
    /\ UNCHANGED <<files, model_calls, raw_output, blocks, results, combined>>
    /\ CloneFrame

(* result = self.process_entire_site_conservatively(full_html, raw_css, url);
   html_file.write_text(result["combined_html"]) *)
ConservativeFinish ==
    /\ pc = "returned"
    /\ mode = "conservative"
    /\ IF PicturesRaise(Soup(context.html))
       THEN /\ reply' = [status |-> 1,
                         detail |-> "Error during conservative clone: "
                                       \o "not enough values to unpack (expected 2, got 1)"]
            /\ UNCHANGED <<files, results, combined>>
       ELSE LET r == process_entire_site_conservatively(context.html, context.css_contents,
                                                        <<context.url>>)
            IN  /\ results' = r.sections
                /\ combined' = r.combined_html
                /\ files' = write_text(files, "generated/conservative_clone.html",
                                       r.combined_html)
                /\ reply' = [status |-> 0, detail |-> "Conservative clone completed!"]
    /\ pc' = "exited"
    /\ UNCHANGED <<model_calls, raw_output, blocks>>
    /\ CloneFrame

NextClone ==
    NextScrape \/ GenerateScrapeFailed \/ GenerateSaveContext \/ GenerateModelCall
       \/ GenerateFinish \/ ConservativeScrapeFailed \/ ConservativeFinish

SpecClone == InitClone /\ [][NextClone]_vars

---------------------------------------------------------------------------
(* Properties of a clone operation *)

\* the operation is over: the endpoint has answered, the script has exited
CloneOver == pc \in {"replied", "exited"}

\* the caller has got a document
DocumentReceived ==
    IF mode = "generate"
    THEN /\ reply.status = 200
         /\ reply.body.combined_html = combined
    ELSE /\ reply.status = 0
         /\ "generated/conservative_clone.html" \in DOMAIN files
         /\ files["generated/conservative_clone.html"] = combined

(* C23: once scrape_website has returned the page, the caller of the
   operation gets a document; a failed model call never reaches the caller as
   a failure of the request *)
C23_DocumentOnceFetched ==
    (CloneOver /\ context # <<>>) => DocumentReceived

(* C24: a failure of the page fetch is raised again by scrape_website, and
   the operation stops there: /generate answers 500 with the cause, writes no
   file and calls no model, and the conservative clone ends without a
   document *)
C24_FetchFailureIsFatal ==
    /\ pc = "returned" => failure = "" /\ context # <<>>
    /\ failure # "" =>
          /\ pc \in {"finally", "raised", "replied", "exited"}
          /\ context = <<>>
          /\ DOMAIN files = {}
          /\ model_calls = 0
          /\ raw_output = "" /\ blocks = <<>> /\ results = <<>> /\ combined = ""
          /\ CloneOver =>
                IF mode = "generate"
                THEN reply = [status |-> 500, detail |-> "Scraping failed: " \o failure]
                ELSE /\ reply.status = 1
                     /\ Contains(failure, reply.detail)

\* /generate has answered a request whose navigation failed
C24_Witness ==
    /\ pc = "replied"
    /\ mode = "generate"
    /\ browser = "closed"
    /\ failure = "net::ERR_NAME_NOT_RESOLVED"
    /\ reply.status = 500

---------------------------------------------------------------------------
(* Two clone operations at once: on one SectionProcessor instance, whose
   methods run in two threads, or as two /generate requests of one server
   process. Each operation has its local state in ops; self.original_images
   and the files below generated/ are the same for both. *)

\* the state of an operation that has not begun
NewOp(input) ==
    [pc |-> "begin", input |-> input, todo |-> <<>>, sections |-> <<>>, seen |-> 0,
     written |-> << >>, reply |-> <<>>]

\* the pages and URLs given to detect_sections by the two callers
SharedInputs ==
    {<<ExamplePage, <<"https://example.com/dir/page.html">>>>,
     <<FivePage, <<"https://example.com/dir/page.html">>>>,
     <<SidePage, <<>>>>}

\* what scrape_website returns for the two requests of the server
ScrapedOf(url, title, page) ==
    [title |-> title, images |-> <<>>, summary |-> summary_of(title, <<>>, "p{margin:0}\n"),
     css_contents |-> "p{margin:0}\n", html |-> page, url |-> url]

SharedRequests ==
    {ScrapedOf("https://one.example/", "One", "<html><head><title>One</title></head></html>"),
     ScrapedOf("https://two.example/", "Two", "<html><head><title>Two</title></head></html>")}

InitShared ==
    /\ pc = "serving"
    /\ html = <<>>
    /\ css = "abc{x:1}"
    /\ css_rules = <<>>
    /\ idx = 0
    /\ filtered_rules = <<>>
    /\ result = ""
    /\ sections = <<>>
    /\ original_images = <<>>
    /\ original_url = <<>>
    /\ sorted_sections = <<>>
    /\ responses = <<>>
    /\ results = <<>>
    /\ combined = ""
    /\ norm_pass = ""
    /\ norm_text = <<>>
    /\ CallIdle
    /\ blocks = <<>>
    /\ ScrapeIdle
    /\ files = << >>
    /\ model_calls = 0
    /\ raw_output = ""
    /\ reply = <<>>
    /\ \/ /\ mode = "processor"
          /\ ops \in {<<NewOp(a), NewOp(b)>> : a \in SharedInputs, b \in SharedInputs}
       \/ /\ mode = "server"
          /\ ops \in {<<NewOp(a), NewOp(b)>> : a \in SharedRequests, b \in SharedRequests}

\* what no step of the two operations changes
SharedFrame ==
    UNCHANGED <<pc, html, css, sections, processVars, filterVars, normVars, callVars,
                blocks, scrapeVars, mode, raw_output, reply>>

\* the sections detect_sections returns for a page
detected_sections(doc, css_text) ==
    WithSection(
      WithSection(
        WithSection(
          WithSection(
            WithSection(<<>>, extract_header(doc), "header", css_text,
                        "Site header with navigation and branding", 2),
            extract_hero(doc), "hero", css_text,
            "Hero banner or main promotional section", 2),
          extract_main_content_visual(doc), "main-content", css_text,
          "Main content area with primary information", 1),
        extract_sidebar(doc), "sidebar", css_text,
        "Sidebar with secondary navigation or content", 3),
      extract_footer(doc), "footer", css_text,
      "Site footer with links and information", 4)

\* detect_sections: self.original_images = {}
OpResetImages(i) ==
    /\ mode = "processor"
    /\ ops[i].pc = "begin"
    /\ original_images' = <<>>
    /\ ops' = [ops EXCEPT ![i].pc = "images",
                          ![i].todo = OriginalImages(ops[i].input[1], 1, ops[i].input[2])]
    /\ UNCHANGED <<files, model_calls>>
    /\ SharedFrame

\* one turn of the loop: self.original_images[f"img_{len(...)}"] = src
OpStoreImage(i) ==
    /\ mode = "processor"
    /\ ops[i].pc = "images"
    /\ ops[i].todo # <<>>
    /\ original_images' = Append(original_images, Head(ops[i].todo))
    /\ ops' = [ops EXCEPT ![i].todo = Tail(ops[i].todo)]
    /\ UNCHANGED <<files, model_calls>>
    /\ SharedFrame

\* the rest of detect_sections: the section list, local to the call
OpDetected(i) ==
    /\ mode = "processor"
    /\ ops[i].pc = "images"
    /\ ops[i].todo = <<>>
    /\ ops' = [ops EXCEPT ![i].pc = "combine",
                          ![i].sections = detected_sections(ops[i].input[1], css)]
    /\ UNCHANGED <<original_images, files, model_calls>>
    /\ SharedFrame

(* process_all_sections and combine_sections work on the list passed to them;
   _process_combined_html reads len(self.original_images) for its report *)
OpCombine(i) ==
    /\ mode = "processor"
    /\ ops[i].pc = "combine"
    /\ ops' = [ops EXCEPT ![i].pc = "done", ![i].seen = Len(original_images)]
    /\ UNCHANGED <<original_images, files, model_calls>>
    /\ SharedFrame

\* a request arrives and awaits scrape_website: other requests run meanwhile
RequestScrape(i) ==
    /\ mode = "server"
    /\ ops[i].pc = "begin"
    /\ ops' = [ops EXCEPT ![i].pc = "scraping"]
    /\ UNCHANGED <<original_images, files, model_calls>>
    /\ SharedFrame

\* the files a request writes: context.json, and three more once the model
\* has answered
RequestFiles(ctx, answer) ==
    IF answer.ok
    THEN [name \in {"generated/context.json", "generated/recreated_page.html",
                    "generated/styles.css", "generated/recreated_combined.html"} |->
             IF name = "generated/context.json" THEN json_dumps(ctx)
             ELSE IF name = "generated/recreated_page.html"
             THEN extract_code_blocks(answer.text)[1]
             ELSE IF name = "generated/styles.css"
             THEN extract_code_blocks(answer.text)[2]
             ELSE inline_css(extract_code_blocks(answer.text)[1],
                             extract_code_blocks(answer.text)[2])]
    ELSE [name \in {"generated/context.json"} |-> json_dumps(ctx)]

\* what the request answers: the combined document, or the model's failure
RequestReply(answer, written) ==
    IF answer.ok
    THEN [status |-> 200, detail |-> written["generated/recreated_combined.html"]]
    ELSE [status |-> 500, detail |-> "Claude API failed: " \o answer.text]

(* the scrape returns and the request runs to its end without another await:
   context.json, the blocking model call, the three files, the answer *)
RequestFinish(i) ==
    /\ mode = "server"
    /\ ops[i].pc = "scraping"
    /\ model_calls' = model_calls + 1
    /\ \E answer \in GenerateAnswers :
          ops' = [ops EXCEPT ![i].pc = "done",
                             ![i].written = RequestFiles(ops[i].input, answer),
                             ![i].reply = RequestReply(answer,
                                                      RequestFiles(ops[i].input, answer))]
    /\ files' = ops'[i].written @@ files
    /\ UNCHANGED original_images
    /\ SharedFrame

\* the scrape of a request fails: it answers 500 and writes nothing
RequestScrapeFailed(i) ==
    /\ mode = "server"
    /\ ops[i].pc = "scraping"
    /\ ops' = [ops EXCEPT ![i].pc = "done",
                          ![i].reply = scraping_failed("net::ERR_NAME_NOT_RESOLVED")]
    /\ UNCHANGED <<original_images, files, model_calls>>
    /\ SharedFrame

NextShared ==
    \E i \in 1..2 :
        \/ OpResetImages(i)
        \/ OpStoreImage(i)
        \/ OpDetected(i)
        \/ OpCombine(i)
        \/ RequestScrape(i)
        \/ RequestFinish(i)
        \/ RequestScrapeFailed(i)

SpecShared == InitShared /\ [][NextShared]_vars

---------------------------------------------------------------------------
(* Properties of two operations at once *)

\* the image registry detect_sections builds for the operation's own page
OwnImages(i) == OriginalImages(ops[i].input[1], 1, ops[i].input[2])

(* C27: no operation writes state that the other can read or overwrite: the
   section list, the image registry and the files an operation has produced
   are its own whatever the other operation does meanwhile *)
C27_OperationsShareNothing ==
    \A i \in 1..2 :
        /\ ops[i].pc \in {"combine", "done"} /\ mode = "processor" =>
              ops[i].sections = detected_sections(ops[i].input[1], css)
        /\ ops[i].pc = "combine" => original_images = OwnImages(i)
        /\ ops[i].pc = "done" /\ mode = "processor" => ops[i].seen = Len(OwnImages(i))
        /\ ops[i].pc = "done" =>
              \A name \in DOMAIN ops[i].written : files[name] = ops[i].written[name]

===========================================================================
